---------------------------- MODULE Spec2Model ----------------------------
(***************************************************************************)
(* A model of the liquid-glass panel: the interaction-state resolver, the  *)
(* record merge, the pointer handlers, the spring integrator, the frame    *)
(* loop with its geometry-rebuild flag, and the rounded-rectangle boundary *)
(* builder.                                                                *)
(*                                                                         *)
(* Numbers.  The program computes in IEEE doubles.  The model computes in  *)
(* fixed point: every length, angle, scale, opacity and velocity is an     *)
(* integer count of millionths (One = 1.0).  A product with a non-integer  *)
(* factor is rounded to the nearest millionth, as a double rounds to the   *)
(* nearest representable value.  Frame deltas and damping factors are      *)
(* exact fractions <<numerator, denominator>>.                             *)
(*                                                                         *)
(* Records.  An AnimationValues object is a function from the keys it owns *)
(* to values; a value is a sequence: <<>> is the JavaScript value          *)
(* undefined (the key is present), <<n>> a number, <<a, b, c, d>> a        *)
(* four-corner tuple.  A key that the object does not own is outside the   *)
(* DOMAIN.  An optional prop is <<>> when not supplied and <<v>> when      *)
(* supplied.                                                               *)
(***************************************************************************)
EXTENDS Integers, Sequences, FiniteSets, TLC

VARIABLES
    call,       \* the arguments of the pure function under test
    ret,        \* <<>> before the call returns, <<result>> after
    steps,      \* how many times the function was called in a repeated run
    props,      \* the props of the panel as of its last render
    isHovered,  \* useState(false)
    isPressed,  \* useState(false)
    pointer,    \* the host's pointer: over the panel or not, button held or not
    event,      \* the raw event, prop change or frame handled last
    calls,      \* the callbacks invoked while handling it, in order
    anim,       \* animationState.current
    geometryUpdateFlag,  \* useState(0)
    shape,      \* what the shape memo last built the boundary from
    frame,      \* the host's frame delta and the locals of the last frame callback
    budget      \* how many more pointer events and prop changes the run takes

pureVars == <<call, ret, steps>>

handlerVars == <<props, isHovered, isPressed, pointer, event, calls>>

frameVars == <<anim, geometryUpdateFlag, shape, frame, budget>>

panelVars == <<props, isHovered, isPressed, pointer, event, calls,
               anim, geometryUpdateFlag, shape, frame, budget>>

vars == <<call, ret, steps, props, isHovered, isPressed, pointer, event, calls,
          anim, geometryUpdateFlag, shape, frame, budget>>

\* no pure function is under test
NoCall == call = [fn |-> "none"] /\ ret = <<>> /\ steps = 0

\* no animation state is attached
NoAnimation ==
    /\ anim = <<>>
    /\ geometryUpdateFlag = 0
    /\ shape = <<>>
    /\ frame = <<>>
    /\ budget = 0

\* no panel is mounted
NoPanel ==
    /\ props = <<>>
    /\ isHovered = FALSE
    /\ isPressed = FALSE
    /\ pointer = <<>>
    /\ event = "none"
    /\ calls = <<>>
    /\ NoAnimation

-----------------------------------------------------------------------------
(* Fixed-point arithmetic *)

One == 1000 * 1000

Abs(x) == IF x < 0 THEN -x ELSE x

Min(a, b) == IF a < b THEN a ELSE b

\* n / d rounded to the nearest integer (d > 0)
RoundDiv(n, d) == (2 * n + d) \div (2 * d)

\* x * (f[1] / f[2]) for an exact fraction f
MulFrac(x, f) == RoundDiv(x * f[1], f[2])

\* the fixed-point product a * b of two fixed-point numbers, computed on the
\* thousands and the units of each factor so that no intermediate product
\* leaves 32 bits
MulFix(a, b) ==
    LET ah == a \div 1000
        al == a % 1000
        bh == b \div 1000
        bl == b % 1000
    IN  ah * bh + RoundDiv(ah * bl + al * bh + RoundDiv(al * bl, 1000), 1000)

\* x / 2, rounded down to a millionth
Half(x) == x \div 2

-----------------------------------------------------------------------------
(* AnimationValues records *)

Undefined == <<>>

Num(n) == <<n>>

EmptyRecord == [k \in {} |-> Undefined]

\* animation.k !== undefined
IsDefined(a, k) == k \in DOMAIN a /\ a[k] # Undefined

\* Object.assign(merged, animation): every own key of the source is copied,
\* whatever its value
ObjectAssign(merged, animation) ==
    [k \in DOMAIN merged \cup DOMAIN animation |->
        IF k \in DOMAIN animation THEN animation[k] ELSE merged[k]]

RECURSIVE AssignAll(_, _)
AssignAll(merged, animations) ==
    IF animations = <<>> THEN merged
    ELSE AssignAll(
            IF Head(animations) = <<>> THEN merged   \* filter(Boolean)
            ELSE ObjectAssign(merged, Head(animations)[1]),
            Tail(animations))

\* a mutant of mergeAnimations: earlier records win
mergeAnimationsFirstWins(animations) ==
    AssignAll(EmptyRecord,
              [i \in 1..Len(animations) |-> animations[Len(animations) + 1 - i]])

\* mergeAnimations(...animations): the arguments are optional records
mergeAnimations(animations) == AssignAll(EmptyRecord, animations)

\* mergeAnimations(a, b) with both arguments present
merge2(a, b) == mergeAnimations(<<(<<a>>), (<<b>>)>>)

DEFAULT_ANIMATIONS ==
    [ whileHover    |-> [scale |-> Num(1100000)],
      whileTap      |-> [scale |-> Num(950000)],
      whileActive   |-> [scale |-> Num(1100000)],
      whileDisabled |-> [scale |-> Num(900000), opacity |-> Num(500000)] ]

\* prop || fallback, for a prop that is an object when supplied
OrDefault(prop, fallback) == IF prop = <<>> THEN fallback ELSE prop[1]

-----------------------------------------------------------------------------
(* The spring integrator *)

\* the time-scale factor of newVelocity * delta * 50
TimeScale == 50

\* a mutant of springStep: a channel at rest is still reported as animating
springStepNeverSettles(current, target, velocity, delta, strength, damp, threshold) ==
    LET displacement == target - current
        springForce  == displacement * strength
        newVelocity  == MulFrac(velocity + MulFrac(springForce, delta), damp)
        newValue     == current + MulFrac(newVelocity * TimeScale, delta)
    IN  <<newValue, newVelocity, TRUE>>

\* springStep of the component: [newValue, newVelocity, isAnimating]
springStep(current, target, velocity, delta, strength, damp, threshold) ==
    LET displacement == target - current
        springForce  == displacement * strength
        newVelocity  == MulFrac(velocity + MulFrac(springForce, delta), damp)
        newValue     == current + MulFrac(newVelocity * TimeScale, delta)
        isAnimating  == \/ Abs(displacement) > threshold
                        \/ Abs(newVelocity) > threshold
    IN  IF ~isAnimating THEN <<target, 0, FALSE>>
        ELSE <<newValue, newVelocity, TRUE>>

\* springStep of the demo page: [newValue, newVelocity], with no flag
appSpringStep(current, target, velocity, delta, strength, damp, threshold) ==
    LET displacement == target - current
        springForce  == displacement * strength
        newVelocity  == MulFrac(velocity + MulFrac(springForce, delta), damp)
        newValue     == current + MulFrac(newVelocity * TimeScale, delta)
    IN  IF Abs(displacement) < threshold /\ Abs(newVelocity) < threshold
        THEN <<target, 0>>
        ELSE <<newValue, newVelocity>>

\* a mutant of springStepCorner: the corners run on a time scale of 60
springStepCornerOtherTimeScale(current, target, velocity, delta, strength, damping, threshold) ==
    LET displacement    == target - current
        springForce     == displacement * strength
        newVel          == MulFrac(velocity + MulFrac(springForce, delta), damping)
        newVal          == current + MulFrac(newVel * 60, delta)
        cornerAnimating == \/ Abs(displacement) > threshold
                           \/ Abs(newVel) > threshold
    IN  IF cornerAnimating THEN <<newVal, newVel, TRUE>>
        ELSE <<target, 0, FALSE>>

\* one corner of springStepBorderRadius: [newValues[i], newVelocities[i], cornerAnimating]
springStepCorner(current, target, velocity, delta, strength, damping, threshold) ==
    LET displacement    == target - current
        springForce     == displacement * strength
        newVel          == MulFrac(velocity + MulFrac(springForce, delta), damping)
        newVal          == current + MulFrac(newVel * TimeScale, delta)
        cornerAnimating == \/ Abs(displacement) > threshold
                           \/ Abs(newVel) > threshold
    IN  IF cornerAnimating THEN <<newVal, newVel, TRUE>>
        ELSE <<target, 0, FALSE>>

\* springStepBorderRadius: [newValues, newVelocities, isAnimating]
springStepBorderRadius(current, target, velocity, delta, strength, damping, threshold) ==
    LET corner(i) == springStepCorner(current[i], target[i], velocity[i],
                                      delta, strength, damping, threshold)
    IN  << [i \in 1..4 |-> corner(i)[1]],
           [i \in 1..4 |-> corner(i)[2]],
           \E i \in 1..4 : corner(i)[3] >>

-----------------------------------------------------------------------------
(* Corner radii *)

\* normalizeBorderRadius(radius, maxRadius): a number <<r>> or a 4-tuple, to
\* [topLeft, topRight, bottomRight, bottomLeft]
normalizeBorderRadius(radius, maxRadius) ==
    IF Len(radius) = 1
    THEN LET r == Min(radius[1], maxRadius) IN <<r, r, r, r>>
    ELSE << Min(radius[1], maxRadius), Min(radius[2], maxRadius),
            Min(radius[3], maxRadius), Min(radius[4], maxRadius) >>

\* a mutant of ShapeInputs: the clamped tuple is read one corner further on,
\* as [topRight, bottomRight, bottomLeft, topLeft]
ShapeInputsTurned(width, height, radius, smoothness) ==
    LET maxRadius == Min(Half(width), Half(height))
        clamped   == normalizeBorderRadius(radius, maxRadius)
    IN  [ width |-> width, height |-> height,
          radii |-> <<clamped[2], clamped[3], clamped[4], clamped[1]>>,
          smoothness |-> smoothness ]

\* the first two lines of createRoundedRectangleShape: the dimensions and the
\* clamped corner radii [rTL, rTR, rBR, rBL] the boundary is drawn from
ShapeInputs(width, height, radius, smoothness) ==
    LET maxRadius == Min(Half(width), Half(height))
    IN  [ width |-> width, height |-> height,
          radii |-> normalizeBorderRadius(radius, maxRadius),
          smoothness |-> smoothness ]

-----------------------------------------------------------------------------
(* The interaction-state resolver *)

\* a mutant of getCurrentAnimation: the disabled branch is skipped while active
getCurrentAnimationActiveWins(p, pressed, hovered) ==
    LET baseAnimation ==
            IF p.active
            THEN OrDefault(p.whileActive, DEFAULT_ANIMATIONS.whileActive)
            ELSE EmptyRecord
    IN  IF p.active THEN baseAnimation
        ELSE IF p.disabled
        THEN merge2(baseAnimation,
                    OrDefault(p.whileDisabled, DEFAULT_ANIMATIONS.whileDisabled))
        ELSE IF pressed
        THEN merge2(baseAnimation,
                    OrDefault(p.whileTap, DEFAULT_ANIMATIONS.whileTap))
        ELSE IF hovered
        THEN merge2(baseAnimation,
                    OrDefault(p.whileHover, DEFAULT_ANIMATIONS.whileHover))
        ELSE baseAnimation

\* getCurrentAnimation of the LiquidGlass component
getCurrentAnimation(p, pressed, hovered) ==
    LET baseAnimation ==
            IF p.active
            THEN OrDefault(p.whileActive, DEFAULT_ANIMATIONS.whileActive)
            ELSE EmptyRecord
    IN  IF p.disabled
        THEN merge2(baseAnimation,
                    OrDefault(p.whileDisabled, DEFAULT_ANIMATIONS.whileDisabled))
        ELSE IF pressed
        THEN merge2(baseAnimation,
                    OrDefault(p.whileTap, DEFAULT_ANIMATIONS.whileTap))
        ELSE IF hovered
        THEN merge2(baseAnimation,
                    OrDefault(p.whileHover, DEFAULT_ANIMATIONS.whileHover))
        ELSE baseAnimation

\* getCurrentAnimation of the useLiquidGlassAnimation hook: the animate prop,
\* when supplied, is the layer beneath the active layer
hookGetCurrentAnimation(p, pressed, hovered) ==
    LET animated == IF p.animate # <<>>
                    THEN ObjectAssign(EmptyRecord, p.animate[1])  \* { ...animate }
                    ELSE EmptyRecord
        baseAnimation ==
            IF p.active
            THEN merge2(animated,
                        OrDefault(p.whileActive, DEFAULT_ANIMATIONS.whileActive))
            ELSE animated
    IN  IF p.disabled
        THEN merge2(baseAnimation,
                    OrDefault(p.whileDisabled, DEFAULT_ANIMATIONS.whileDisabled))
        ELSE IF pressed
        THEN merge2(baseAnimation,
                    OrDefault(p.whileTap, DEFAULT_ANIMATIONS.whileTap))
        ELSE IF hovered
        THEN merge2(baseAnimation,
                    OrDefault(p.whileHover, DEFAULT_ANIMATIONS.whileHover))
        ELSE baseAnimation

\* a mutant of radiusGetCurrentAnimation: a press without a tap animation
\* returns the active layer at once, the hover layer is not looked at
radiusGetCurrentAnimationPressHidesHover(p, pressed, hovered) ==
    LET baseAnimation ==
            IF p.active
            THEN OrDefault(p.whileActive, DEFAULT_ANIMATIONS.whileActive)
            ELSE EmptyRecord
        tap   == p.animateOnTap \/ p.whileTap # <<>>
        hover == hovered /\ (p.animateOnHover \/ p.whileHover # <<>>)
    IN  IF p.disabled
        THEN merge2(baseAnimation,
                    OrDefault(p.whileDisabled, DEFAULT_ANIMATIONS.whileDisabled))
        ELSE IF pressed
        THEN (IF tap
              THEN merge2(baseAnimation,
                          OrDefault(p.whileTap,
                                    IF p.animateOnTap THEN DEFAULT_ANIMATIONS.whileTap
                                    ELSE EmptyRecord))
              ELSE baseAnimation)
        ELSE IF hover
        THEN merge2(baseAnimation,
                    OrDefault(p.whileHover,
                              IF p.animateOnHover THEN DEFAULT_ANIMATIONS.whileHover
                              ELSE EmptyRecord))
        ELSE baseAnimation

\* getCurrentAnimation of the component with animated corner radii: the tap
\* and hover layers apply only if their toggle is on or their record supplied
radiusGetCurrentAnimation(p, pressed, hovered) ==
    LET baseAnimation ==
            IF p.active
            THEN OrDefault(p.whileActive, DEFAULT_ANIMATIONS.whileActive)
            ELSE EmptyRecord
        tap   == pressed /\ (p.animateOnTap \/ p.whileTap # <<>>)
        hover == hovered /\ (p.animateOnHover \/ p.whileHover # <<>>)
    IN  IF p.disabled
        THEN merge2(baseAnimation,
                    OrDefault(p.whileDisabled, DEFAULT_ANIMATIONS.whileDisabled))
        ELSE IF tap
        THEN merge2(baseAnimation,
                    OrDefault(p.whileTap,
                              IF p.animateOnTap THEN DEFAULT_ANIMATIONS.whileTap
                              ELSE EmptyRecord))
        ELSE IF hover
        THEN merge2(baseAnimation,
                    OrDefault(p.whileHover,
                              IF p.animateOnHover THEN DEFAULT_ANIMATIONS.whileHover
                              ELSE EmptyRecord))
        ELSE baseAnimation

-----------------------------------------------------------------------------
(* Animation targets *)

\* a mutant of OrElse: a field that is not set counts as 0
OrElseZero(animation, k, fallback) ==
    IF IsDefined(animation, k) THEN animation[k][1] ELSE 0

\* animation.k ?? fallback
OrElse(animation, k, fallback) ==
    IF IsDefined(animation, k) THEN animation[k][1] ELSE fallback

\* a mutant of applyAnimation: the rotate fields are absolute angles
applyAnimationAbsoluteRotation(state, animation) ==
    LET width1  == OrElse(animation, "width", state.baseWidth)
        height1 == OrElse(animation, "height", state.baseHeight)
        scale1  == IF IsDefined(animation, "scale")
                   THEN MulFix(state.baseScale, animation.scale[1])
                   ELSE state.baseScale
    IN  [ state EXCEPT
            !.targetWidth  = IF IsDefined(animation, "scaleX")
                             THEN MulFix(state.baseWidth, animation.scaleX[1])
                             ELSE width1,
            !.targetHeight = IF IsDefined(animation, "scaleY")
                             THEN MulFix(state.baseHeight, animation.scaleY[1])
                             ELSE height1,
            !.targetScale  = IF IsDefined(animation, "scaleZ")
                             THEN MulFix(state.baseScale, animation.scaleZ[1])
                             ELSE scale1,
            !.targetPosition =
                << OrElse(animation, "x", state.basePosition[1]),
                   OrElse(animation, "y", state.basePosition[2]),
                   OrElse(animation, "z", state.basePosition[3]) >>,
            !.targetRotation =
                << OrElse(animation, "rotateX", state.baseRotation[1]),
                   OrElse(animation, "rotateY", state.baseRotation[2]),
                   OrElse(animation, "rotateZ", state.baseRotation[3]) >>,
            !.targetOpacity = OrElse(animation, "opacity", One) ]

\* applyAnimation of the LiquidGlass component: the targets of state follow
\* the record; current values and velocities are not touched
applyAnimation(state, animation) ==
    LET width1  == OrElse(animation, "width", state.baseWidth)
        height1 == OrElse(animation, "height", state.baseHeight)
        scale1  == IF IsDefined(animation, "scale")
                   THEN MulFix(state.baseScale, animation.scale[1])
                   ELSE state.baseScale
        targetWidth  == IF IsDefined(animation, "scaleX")
                        THEN MulFix(state.baseWidth, animation.scaleX[1])
                        ELSE width1
        targetHeight == IF IsDefined(animation, "scaleY")
                        THEN MulFix(state.baseHeight, animation.scaleY[1])
                        ELSE height1
        targetScale  == IF IsDefined(animation, "scaleZ")
                        THEN MulFix(state.baseScale, animation.scaleZ[1])
                        ELSE scale1
    IN  [ state EXCEPT
            !.targetWidth  = targetWidth,
            !.targetHeight = targetHeight,
            !.targetScale  = targetScale,
            !.targetPosition =
                << OrElse(animation, "x", state.basePosition[1]),
                   OrElse(animation, "y", state.basePosition[2]),
                   OrElse(animation, "z", state.basePosition[3]) >>,
            !.targetRotation =
                << state.baseRotation[1] + OrElse(animation, "rotateX", 0),
                   state.baseRotation[2] + OrElse(animation, "rotateY", 0),
                   state.baseRotation[3] + OrElse(animation, "rotateZ", 0) >>,
            !.targetOpacity = OrElse(animation, "opacity", One) ]

\* applyAnimation of useLiquidGlassAnimation: a scale in the record sets the
\* width and height targets after an explicit width or height has; the
\* completionFired ref is kept with the state
hookApplyAnimation(state, animation) ==
    LET width1  == OrElse(animation, "width", state.baseWidth)
        height1 == OrElse(animation, "height", state.baseHeight)
        width2  == IF IsDefined(animation, "scale")
                   THEN MulFix(state.baseWidth, animation.scale[1])
                   ELSE width1
        height2 == IF IsDefined(animation, "scale")
                   THEN MulFix(state.baseHeight, animation.scale[1])
                   ELSE height1
        scaleZ1 == OrElse(animation, "scale", One)
        targetWidth  == IF IsDefined(animation, "scaleX")
                        THEN MulFix(state.baseWidth, animation.scaleX[1])
                        ELSE width2
        targetHeight == IF IsDefined(animation, "scaleY")
                        THEN MulFix(state.baseHeight, animation.scaleY[1])
                        ELSE height2
        scaleZ       == OrElse(animation, "scaleZ", scaleZ1)
    IN  [ state EXCEPT
            !.targetWidth  = targetWidth,
            !.targetHeight = targetHeight,
            !.targetScaleZ = scaleZ,
            !.targetPosition =
                << OrElse(animation, "x", state.basePosition[1]),
                   OrElse(animation, "y", state.basePosition[2]),
                   OrElse(animation, "z", state.basePosition[3]) >>,
            !.targetRotation =
                << OrElse(animation, "rotateX", 0) + state.baseRotation[1],
                   OrElse(animation, "rotateY", 0) + state.baseRotation[2],
                   OrElse(animation, "rotateZ", 0) + state.baseRotation[3] >>,
            !.targetOpacity = OrElse(animation, "opacity", One),
            !.isAnimating = TRUE,
            !.completionFired = FALSE ]

\* the AnimationState of useLiquidGlassAnimation for a panel without an
\* initial record: current and target at the base values, at rest
HookInitialAnimationState(p) ==
    [ currentWidth |-> p.width, currentHeight |-> p.height,
      currentScaleZ |-> One,
      currentPosition |-> p.position, currentRotation |-> p.rotation,
      currentOpacity |-> One,
      targetWidth |-> p.width, targetHeight |-> p.height,
      targetScaleZ |-> One,
      targetPosition |-> p.position, targetRotation |-> p.rotation,
      targetOpacity |-> One,
      widthVelocity |-> 0, heightVelocity |-> 0, scaleZVelocity |-> 0,
      positionVelocity |-> <<0, 0, 0>>, rotationVelocity |-> <<0, 0, 0>>,
      opacityVelocity |-> 0,
      baseWidth |-> p.width, baseHeight |-> p.height,
      basePosition |-> p.position, baseRotation |-> p.rotation,
      isAnimating |-> FALSE, hasInitialized |-> FALSE,
      completionFired |-> FALSE ]


\* applyAnimation of the component with animated corner radii: the same, then
\* the radius targets, clamped to the target dimensions when the record gives
\* a radius and reset to the base radii when it does not
radiusApplyAnimation(state, animation) ==
    LET applied == applyAnimation(state, animation)
        maxRadius == Min(Half(applied.targetWidth), Half(applied.targetHeight))
    IN  [ applied EXCEPT
            !.targetBorderRadius =
                IF IsDefined(animation, "borderRadius")
                THEN normalizeBorderRadius(animation.borderRadius, maxRadius)
                ELSE state.baseBorderRadius ]

\* baseBorderRadiusArr: the radius prop normalized against the size props
baseBorderRadiusArr(p) ==
    normalizeBorderRadius(p.borderRadius, Min(Half(p.width), Half(p.height)))

\* animationState as useRef creates it on the first render
InitialAnimationState(p) ==
    [ currentWidth |-> p.width, currentHeight |-> p.height,
      currentScale |-> p.scale,
      currentPosition |-> p.position, currentRotation |-> p.rotation,
      currentOpacity |-> One,
      currentBorderRadius |-> baseBorderRadiusArr(p),
      targetWidth |-> p.width, targetHeight |-> p.height,
      targetScale |-> p.scale,
      targetPosition |-> p.position, targetRotation |-> p.rotation,
      targetOpacity |-> One,
      targetBorderRadius |-> baseBorderRadiusArr(p),
      widthVelocity |-> 0, heightVelocity |-> 0, scaleVelocity |-> 0,
      positionVelocity |-> <<0, 0, 0>>, rotationVelocity |-> <<0, 0, 0>>,
      opacityVelocity |-> 0,
      borderRadiusVelocity |-> <<0, 0, 0, 0>>,
      baseWidth |-> p.width, baseHeight |-> p.height, baseScale |-> p.scale,
      basePosition |-> p.position, baseRotation |-> p.rotation,
      baseBorderRadius |-> baseBorderRadiusArr(p) ]

\* a mutant of UpdateBaseValues: the width, the scale and the opacity jump to
\* their new targets
UpdateBaseValuesSnapping(state, p, pressed, hovered) ==
    LET based == [ state EXCEPT
                     !.basePosition = p.position,
                     !.baseRotation = p.rotation,
                     !.baseWidth = p.width,
                     !.baseHeight = p.height,
                     !.baseScale = p.scale,
                     !.baseBorderRadius =
                         IF p.variant = "animatedRadius"
                         THEN baseBorderRadiusArr(p) ELSE @ ]
        applied == IF p.variant = "animatedRadius"
                   THEN radiusApplyAnimation(based, radiusGetCurrentAnimation(p, pressed, hovered))
                   ELSE applyAnimation(based, getCurrentAnimation(p, pressed, hovered))
    IN  [ applied EXCEPT
            !.currentWidth = applied.targetWidth, !.widthVelocity = 0,
            !.currentScale = applied.targetScale, !.scaleVelocity = 0,
            !.currentOpacity = applied.targetOpacity, !.opacityVelocity = 0 ]

\* a mutant of UpdateBaseValues: the targets are resolved by a callback that
\* still sees the panel as not pressed
UpdateBaseValuesStalePress(state, p, pressed, hovered) ==
    LET based == [ state EXCEPT
                     !.basePosition = p.position,
                     !.baseRotation = p.rotation,
                     !.baseWidth = p.width,
                     !.baseHeight = p.height,
                     !.baseScale = p.scale,
                     !.baseBorderRadius =
                         IF p.variant = "animatedRadius"
                         THEN baseBorderRadiusArr(p) ELSE @ ]
    IN  IF p.variant = "animatedRadius"
        THEN radiusApplyAnimation(based, radiusGetCurrentAnimation(p, FALSE, hovered))
        ELSE applyAnimation(based, getCurrentAnimation(p, FALSE, hovered))

\* the effect that follows a render: the base values are taken from the
\* props and the targets are resolved again
UpdateBaseValues(state, p, pressed, hovered) ==
    LET based == [ state EXCEPT
                     !.basePosition = p.position,
                     !.baseRotation = p.rotation,
                     !.baseWidth = p.width,
                     !.baseHeight = p.height,
                     !.baseScale = p.scale,
                     !.baseBorderRadius =
                         IF p.variant = "animatedRadius"
                         THEN baseBorderRadiusArr(p) ELSE @ ]
    IN  IF p.variant = "animatedRadius"
        THEN radiusApplyAnimation(based, radiusGetCurrentAnimation(p, pressed, hovered))
        ELSE applyAnimation(based, getCurrentAnimation(p, pressed, hovered))

\* the shape memo: the boundary is built from the current dimensions (the
\* props when a current dimension is 0) and, with animated radii, from the
\* current radii
BuildShape(state, p) ==
    ShapeInputs(IF state.currentWidth # 0 THEN state.currentWidth ELSE p.width,
                IF state.currentHeight # 0 THEN state.currentHeight ELSE p.height,
                IF p.variant = "animatedRadius"
                THEN state.currentBorderRadius ELSE p.borderRadius,
                p.borderSmoothness)

-----------------------------------------------------------------------------
(* Inputs of the record functions *)

\* the most records one mergeAnimations call is given
MaxMergeArgs == 3

SampleRecords ==
    { [scale |-> Num(1200000)],
      [opacity |-> Num(800000), x |-> Num(100000)],
      [scale |-> Undefined, width |-> Num(1500000)] }

OptionalRecords == {<<>>} \cup {<<r>> : r \in SampleRecords}

Keys == {"scale", "opacity", "x", "width"}

ResolverProps ==
    [ active : BOOLEAN, disabled : BOOLEAN,
      whileHover : OptionalRecords, whileTap : OptionalRecords,
      whileActive : OptionalRecords, whileDisabled : OptionalRecords,
      animate : {<<>>, <<[opacity |-> Num(800000), x |-> Num(100000)]>>} ]

-----------------------------------------------------------------------------
(* mergeAnimations, called on every list of up to MaxMergeArgs arguments *)

InitMerge ==
    /\ \E n \in 0..MaxMergeArgs :
         \E animations \in [1..n -> OptionalRecords] :
            call = [fn |-> "mergeAnimations", animations |-> animations]
    /\ ret = <<>>
    /\ steps = 0
    /\ NoPanel

CallMergeAnimations ==
    /\ call.fn = "mergeAnimations"
    /\ ret = <<>>
    /\ ret' = <<mergeAnimations(call.animations)>>
    /\ UNCHANGED <<call, steps>>
    /\ UNCHANGED panelVars

NextMerge == CallMergeAnimations

SpecMerge == InitMerge /\ [][NextMerge]_vars

-----------------------------------------------------------------------------
(* The resolvers, called on every combination of flags and supplied records *)

\* the props read by the resolver of the component with animated radii
RadiusResolverProps ==
    [ active : BOOLEAN, disabled : BOOLEAN,
      whileHover : OptionalRecords, whileTap : OptionalRecords,
      whileActive : {<<>>, <<[scale |-> Num(1200000)]>>},
      whileDisabled : {<<>>, <<[opacity |-> Num(800000), x |-> Num(100000)]>>},
      animateOnTap : BOOLEAN, animateOnHover : BOOLEAN ]

InitResolve ==
    /\ \E pressed \in BOOLEAN, hovered \in BOOLEAN :
         \/ \E fn \in {"getCurrentAnimation", "hookGetCurrentAnimation"} :
              \E p \in ResolverProps :
                 call = [fn |-> fn, props |-> p,
                         isPressed |-> pressed, isHovered |-> hovered]
         \/ \E p \in RadiusResolverProps :
              call = [fn |-> "radiusGetCurrentAnimation", props |-> p,
                      isPressed |-> pressed, isHovered |-> hovered]
    /\ ret = <<>>
    /\ steps = 0
    /\ NoPanel

CallGetCurrentAnimation ==
    /\ call.fn = "getCurrentAnimation"
    /\ ret = <<>>
    /\ ret' = <<getCurrentAnimation(call.props, call.isPressed, call.isHovered)>>
    /\ UNCHANGED <<call, steps>>
    /\ UNCHANGED panelVars

CallHookGetCurrentAnimation ==
    /\ call.fn = "hookGetCurrentAnimation"
    /\ ret = <<>>
    /\ ret' = <<hookGetCurrentAnimation(call.props, call.isPressed, call.isHovered)>>
    /\ UNCHANGED <<call, steps>>
    /\ UNCHANGED panelVars

CallRadiusGetCurrentAnimation ==
    /\ call.fn = "radiusGetCurrentAnimation"
    /\ ret = <<>>
    /\ ret' = <<radiusGetCurrentAnimation(call.props, call.isPressed, call.isHovered)>>
    /\ UNCHANGED <<call, steps>>
    /\ UNCHANGED panelVars

NextResolve ==
    \/ CallGetCurrentAnimation
    \/ CallHookGetCurrentAnimation
    \/ CallRadiusGetCurrentAnimation

SpecResolve == InitResolve /\ [][NextResolve]_vars

-----------------------------------------------------------------------------
(* The spring step, called once on every input of a grid *)

DEFAULT_PROPS ==
    [ width |-> One, height |-> One, borderRadius |-> 200000,
      springStrength |-> 15, damping |-> <<4, 5>>, animationThreshold |-> 1000 ]

StepValues     == {-500000, 0, 999000, One, 1500000}
StepVelocities == {-200000, 0, 300}
StepDeltas     == {<<1, 60>>, <<1, 30>>, <<1, 144>>}
StepStrengths  == {0, 6, 15, 25}
StepDampings   == {<<3, 5>>, <<4, 5>>, <<1, 1>>}
StepThresholds == {0, 1000, 10000}

StepCorners ==
    { <<200000, 200000, 200000, 200000>>,
      <<0, 100000, 250000, 500000>>,
      <<500000, 500000, 0, 0>> }

StepCornerVelocities == { <<0, 0, 0, 0>>, <<0, 300, -200000, 0>> }

InitStep ==
    /\ \E delta \in StepDeltas, strength \in StepStrengths,
          damping \in StepDampings, threshold \in StepThresholds :
         \/ \E current \in StepValues, target \in StepValues,
               velocity \in StepVelocities :
              \E fn \in {"springStep", "appSpringStep"} :
                call = [fn |-> fn, current |-> current, target |-> target,
                        velocity |-> velocity, delta |-> delta,
                        strength |-> strength, damping |-> damping,
                        threshold |-> threshold]
         \/ \E current \in StepCorners, target \in StepCorners,
               velocity \in StepCornerVelocities :
              call = [fn |-> "springStepBorderRadius", current |-> current,
                      target |-> target, velocity |-> velocity, delta |-> delta,
                      strength |-> strength, damping |-> damping,
                      threshold |-> threshold]
    /\ ret = <<>>
    /\ steps = 0
    /\ NoPanel

CallSpringStep ==
    /\ call.fn = "springStep"
    /\ ret = <<>>
    /\ ret' = <<springStep(call.current, call.target, call.velocity, call.delta,
                           call.strength, call.damping, call.threshold)>>
    /\ steps' = steps + 1
    /\ UNCHANGED call
    /\ UNCHANGED panelVars

CallSpringStepBorderRadius ==
    /\ call.fn = "springStepBorderRadius"
    /\ ret = <<>>
    /\ ret' = <<springStepBorderRadius(call.current, call.target, call.velocity,
                                       call.delta, call.strength, call.damping,
                                       call.threshold)>>
    /\ steps' = steps + 1
    /\ UNCHANGED call
    /\ UNCHANGED panelVars

CallAppSpringStep ==
    /\ call.fn = "appSpringStep"
    /\ ret = <<>>
    /\ ret' = <<appSpringStep(call.current, call.target, call.velocity, call.delta,
                              call.strength, call.damping, call.threshold)>>
    /\ steps' = steps + 1
    /\ UNCHANGED call
    /\ UNCHANGED panelVars

NextStep == CallSpringStep \/ CallSpringStepBorderRadius \/ CallAppSpringStep

SpecStep == InitStep /\ [][NextStep]_vars

-----------------------------------------------------------------------------
(* The spring step repeated on one channel: each result is the next input *)

\* the most steps one channel is driven for
MaxSteps == 205

RunStarts ==
    { [current |-> 0, target |-> One],
      [current |-> One, target |-> 1500000],
      [current |-> 1500000, target |-> One] }

InitRun ==
    /\ \E start \in RunStarts, delta \in {<<1, 60>>, <<1, 30>>} :
         call = [fn |-> "springStep", current |-> start.current,
                 target |-> start.target, velocity |-> 0, delta |-> delta,
                 strength |-> DEFAULT_PROPS.springStrength,
                 damping |-> DEFAULT_PROPS.damping,
                 threshold |-> DEFAULT_PROPS.animationThreshold,
                 start |-> start.current]
    /\ ret = <<>>
    /\ steps = 0
    /\ NoPanel

\* the caller stores the returned value and velocity and steps again
StoreResult ==
    /\ call.fn = "springStep"
    /\ ret # <<>>
    /\ steps < MaxSteps
    /\ call' = [call EXCEPT !.current = ret[1][1], !.velocity = ret[1][2]]
    /\ ret' = <<>>
    /\ UNCHANGED steps
    /\ UNCHANGED panelVars

NextRun == CallSpringStep \/ StoreResult

SpecRun == InitRun /\ [][NextRun]_vars

-----------------------------------------------------------------------------
(* The pointer handlers *)

CallbackNames ==
    {"onClick", "onToggle", "onHoverStart", "onHoverEnd", "onTapStart", "onTapEnd"}

Callback(name) == [cb |-> name, arg |-> <<>>]

CallbackWith(name, arg) == [cb |-> name, arg |-> <<arg>>]

\* onX?.() and if (onX) onX(): a callback runs only if the prop is supplied
Invoke(callbacks) == SelectSeq(callbacks, LAMBDA c : c.cb \in props.callbacks)

\* handlePointerEnter (the component and useHandlers alike)
handlePointerEnter ==
    IF props.disabled
    THEN /\ calls' = <<>>
         /\ UNCHANGED <<isHovered, isPressed>>
    ELSE /\ isHovered' = TRUE
         /\ calls' = Invoke(<<Callback("onHoverStart")>>)
         /\ UNCHANGED isPressed

\* handlePointerLeave: useHandlers returns early when disabled, the component
\* does not
handlePointerLeave ==
    IF props.impl = "useHandlers" /\ props.disabled
    THEN /\ calls' = <<>>
         /\ UNCHANGED <<isHovered, isPressed>>
    ELSE /\ isHovered' = FALSE
         /\ calls' = Invoke(<<Callback("onHoverEnd")>>)
         /\ UNCHANGED isPressed

\* handlePointerDown (the component and useHandlers alike)
handlePointerDown ==
    IF props.disabled
    THEN /\ calls' = <<>>
         /\ UNCHANGED <<isHovered, isPressed>>
    ELSE /\ isPressed' = TRUE
         /\ calls' = Invoke(<<Callback("onTapStart")>>)
         /\ UNCHANGED isHovered

\* a mutant of handlePointerUp: the disabled check is missing
handlePointerUpIgnoresDisabled ==
    /\ isPressed' = FALSE
    /\ calls' = Invoke(<<Callback("onTapEnd"), Callback("onClick"),
                         CallbackWith("onToggle", ~props.active)>>)
    /\ UNCHANGED isHovered

\* handlePointerUp (the component and useHandlers alike)
handlePointerUp ==
    IF props.disabled
    THEN /\ calls' = <<>>
         /\ UNCHANGED <<isHovered, isPressed>>
    ELSE /\ isPressed' = FALSE
         /\ calls' = Invoke(<<Callback("onTapEnd"), Callback("onClick"),
                              CallbackWith("onToggle", ~props.active)>>)
         /\ UNCHANGED isHovered

-----------------------------------------------------------------------------
(* The handlers driven by the host's pointer and by prop changes.  The       *)
(* pointer enters only from outside and leaves only from inside; its button  *)
(* goes down and up alternately, over the panel (the panel gets the event)   *)
(* or away from it (the panel gets nothing).                                 *)

HandlerProps ==
    [ impl : {"component", "useHandlers"},
      active : BOOLEAN,
      disabled : BOOLEAN,
      callbacks : {CallbackNames, {}, {"onClick"}, {"onToggle", "onTapEnd"}} ]

InitHandlers ==
    /\ NoCall
    /\ props \in HandlerProps
    /\ isHovered = FALSE
    /\ isPressed = FALSE
    /\ pointer = [inside |-> FALSE, down |-> FALSE]
    /\ event = "none"
    /\ calls = <<>>
    /\ NoAnimation

PointerEnterEvent ==
    /\ ~pointer.inside
    /\ pointer' = [pointer EXCEPT !.inside = TRUE]
    /\ event' = "pointerenter"
    /\ handlePointerEnter
    /\ UNCHANGED props
    /\ UNCHANGED pureVars

PointerLeaveEvent ==
    /\ pointer.inside
    /\ pointer' = [pointer EXCEPT !.inside = FALSE]
    /\ event' = "pointerleave"
    /\ handlePointerLeave
    /\ UNCHANGED props
    /\ UNCHANGED pureVars

PointerDownEvent ==
    /\ pointer.inside /\ ~pointer.down
    /\ pointer' = [pointer EXCEPT !.down = TRUE]
    /\ event' = "pointerdown"
    /\ handlePointerDown
    /\ UNCHANGED props
    /\ UNCHANGED pureVars

PointerUpEvent ==
    /\ pointer.inside /\ pointer.down
    /\ pointer' = [pointer EXCEPT !.down = FALSE]
    /\ event' = "pointerup"
    /\ handlePointerUp
    /\ UNCHANGED props
    /\ UNCHANGED pureVars

\* the button is pressed or released while the pointer is away from the panel
ButtonElsewhereEvent ==
    /\ ~pointer.inside
    /\ pointer' = [pointer EXCEPT !.down = ~pointer.down]
    /\ event' = "none"
    /\ calls' = <<>>
    /\ UNCHANGED <<props, isHovered, isPressed>>
    /\ UNCHANGED pureVars

\* the parent renders the panel with another value of disabled
SetDisabledEvent ==
    /\ props' = [props EXCEPT !.disabled = ~props.disabled]
    /\ event' = "props"
    /\ calls' = <<>>
    /\ UNCHANGED <<isHovered, isPressed, pointer>>
    /\ UNCHANGED pureVars

\* the parent renders the panel with another value of active
SetActiveEvent ==
    /\ props' = [props EXCEPT !.active = ~props.active]
    /\ event' = "props"
    /\ calls' = <<>>
    /\ UNCHANGED <<isHovered, isPressed, pointer>>
    /\ UNCHANGED pureVars

PointerEnter == PointerEnterEvent /\ UNCHANGED frameVars

PointerLeave == PointerLeaveEvent /\ UNCHANGED frameVars

PointerDown == PointerDownEvent /\ UNCHANGED frameVars

PointerUp == PointerUpEvent /\ UNCHANGED frameVars

ButtonElsewhere == ButtonElsewhereEvent /\ UNCHANGED frameVars

SetDisabled == SetDisabledEvent /\ UNCHANGED frameVars

SetActive == SetActiveEvent /\ UNCHANGED frameVars

NextHandlers ==
    \/ PointerEnter
    \/ PointerLeave
    \/ PointerDown
    \/ PointerUp
    \/ ButtonElsewhere
    \/ SetDisabled
    \/ SetActive

SpecHandlers == InitHandlers /\ [][NextHandlers]_vars

-----------------------------------------------------------------------------
(* The frame loop *)

\* positionSpring?.strength ?? springStrength, and the like
Resolved(spring, field, fallback) ==
    IF spring # <<>> /\ spring[1][field] # <<>> THEN spring[1][field][1]
    ELSE fallback

\* a mutant of GeometryNeedsUpdate: a moving transform channel flags a rebuild
GeometryNeedsUpdateOnAnyChannel(widthAnimating, heightAnimating, borderRadiusAnimating, transformAnimating) ==
    widthAnimating \/ heightAnimating \/ borderRadiusAnimating \/ transformAnimating

\* a mutant of GeometryNeedsUpdate: only the height channel flags a rebuild
GeometryNeedsUpdateHeightOnly(widthAnimating, heightAnimating, borderRadiusAnimating, transformAnimating) ==
    heightAnimating

\* geometryNeedsUpdate at the end of the frame callback: set by the width,
\* height and corner-radius steps; the animating results of the scale,
\* position, rotation and opacity steps are dropped
GeometryNeedsUpdate(widthAnimating, heightAnimating, borderRadiusAnimating, transformAnimating) ==
    widthAnimating \/ heightAnimating \/ borderRadiusAnimating

\* the useFrame callback, with the render that a raised geometry flag causes
Tick ==
    /\ props.visible
    /\ LET delta  == frame.delta
           k      == props.springStrength
           d      == props.damping
           thr    == props.animationThreshold
           radius == props.variant = "animatedRadius"
           posK   == IF radius THEN Resolved(props.positionSpring, "strength", k) ELSE k
           posD   == IF radius THEN Resolved(props.positionSpring, "damping", d) ELSE d
           rotK   == IF radius THEN Resolved(props.rotationSpring, "strength", k) ELSE k
           rotD   == IF radius THEN Resolved(props.rotationSpring, "damping", d) ELSE d
           w  == springStep(anim.currentWidth, anim.targetWidth,
                            anim.widthVelocity, delta, k, d, thr)
           h  == springStep(anim.currentHeight, anim.targetHeight,
                            anim.heightVelocity, delta, k, d, thr)
           br == IF radius
                 THEN springStepBorderRadius(anim.currentBorderRadius,
                                             anim.targetBorderRadius,
                                             anim.borderRadiusVelocity,
                                             delta, k, d, thr)
                 ELSE <<anim.currentBorderRadius, anim.borderRadiusVelocity, FALSE>>
           sc == springStep(anim.currentScale, anim.targetScale,
                            anim.scaleVelocity, delta, k, d, thr)
           pos(i) == springStep(anim.currentPosition[i], anim.targetPosition[i],
                                anim.positionVelocity[i], delta, posK, posD, thr)
           rot(i) == springStep(anim.currentRotation[i], anim.targetRotation[i],
                                anim.rotationVelocity[i], delta, rotK, rotD, thr)
           op == springStep(anim.currentOpacity, anim.targetOpacity,
                            anim.opacityVelocity, delta, k, d, thr)
           transformAnimating ==
               sc[3] \/ op[3] \/ \E i \in 1..3 : pos(i)[3] \/ rot(i)[3]
           geometryNeedsUpdate == GeometryNeedsUpdate(w[3], h[3], br[3], transformAnimating)
           next == [ anim EXCEPT
                       !.currentWidth = w[1], !.widthVelocity = w[2],
                       !.currentHeight = h[1], !.heightVelocity = h[2],
                       !.currentBorderRadius = br[1], !.borderRadiusVelocity = br[2],
                       !.currentScale = sc[1], !.scaleVelocity = sc[2],
                       !.currentPosition = [i \in 1..3 |-> pos(i)[1]],
                       !.positionVelocity = [i \in 1..3 |-> pos(i)[2]],
                       !.currentRotation = [i \in 1..3 |-> rot(i)[1]],
                       !.rotationVelocity = [i \in 1..3 |-> rot(i)[2]],
                       !.currentOpacity = op[1], !.opacityVelocity = op[2] ]
       IN  /\ anim' = next
           /\ geometryUpdateFlag' =
                  IF geometryNeedsUpdate THEN geometryUpdateFlag + 1
                  ELSE geometryUpdateFlag
           /\ shape' = IF geometryNeedsUpdate THEN BuildShape(next, props) ELSE shape
           /\ frame' = [ frame EXCEPT
                           !.widthAnimating = w[3],
                           !.heightAnimating = h[3],
                           !.borderRadiusAnimating = br[3],
                           !.geometryNeedsUpdate = geometryNeedsUpdate ]
    /\ event' = "frame"
    /\ calls' = <<>>
    /\ UNCHANGED <<props, isHovered, isPressed, pointer, budget>>
    /\ UNCHANGED pureVars

\* the render that follows a state or prop change, and its effect: the shape
\* memo rebuilds if a size or radius prop changed, then the base values and
\* the targets are set again
Rerender ==
    /\ budget > 0
    /\ budget' = budget - 1
    /\ shape' = IF \/ props'.width # props.width
                   \/ props'.height # props.height
                   \/ props'.borderRadius # props.borderRadius
                   \/ props'.borderSmoothness # props.borderSmoothness
                THEN BuildShape(anim, props')
                ELSE shape
    /\ anim' = UpdateBaseValues(anim, props', isPressed', isHovered')
    /\ UNCHANGED <<geometryUpdateFlag, frame>>

RenderPointerEnter == PointerEnterEvent /\ Rerender

RenderPointerLeave == PointerLeaveEvent /\ Rerender

RenderPointerDown == PointerDownEvent /\ Rerender

RenderPointerUp == PointerUpEvent /\ Rerender

RenderButtonElsewhere ==
    /\ ButtonElsewhereEvent
    /\ budget > 0
    /\ budget' = budget - 1
    /\ UNCHANGED <<anim, geometryUpdateFlag, shape, frame>>

RenderSetDisabled == SetDisabledEvent /\ Rerender

RenderSetActive == SetActiveEvent /\ Rerender

\* the parent renders the panel with another width
RenderSetWidth ==
    /\ \E width \in {600000, One} \ {props.width} :
          props' = [props EXCEPT !.width = width]
    /\ event' = "props"
    /\ calls' = <<>>
    /\ UNCHANGED <<isHovered, isPressed, pointer>>
    /\ UNCHANGED pureVars
    /\ Rerender

\* the parent renders the panel with another rotation
RenderSetRotation ==
    /\ \E rotation \in {<<0, 0, 0>>, <<100000, 0, 0 - 200000>>} \ {props.rotation} :
          props' = [props EXCEPT !.rotation = rotation]
    /\ event' = "props"
    /\ calls' = <<>>
    /\ UNCHANGED <<isHovered, isPressed, pointer>>
    /\ UNCHANGED pureVars
    /\ Rerender

NextFrame ==
    \/ Tick
    \/ RenderPointerEnter
    \/ RenderPointerLeave
    \/ RenderPointerDown
    \/ RenderPointerUp
    \/ RenderButtonElsewhere
    \/ RenderSetDisabled
    \/ RenderSetActive
    \/ RenderSetWidth
    \/ RenderSetRotation

\* the most pointer events and prop changes in one run of a panel
MaxEvents == 2

\* the same, for the panel with the default spring parameters
MaxDefaultEvents == 1

FrameDeltas == {<<1, 60>>, <<1, 30>>}

CommonProps ==
    [ impl |-> "component", callbacks |-> CallbackNames,
      active |-> FALSE, disabled |-> FALSE, visible |-> TRUE,
      width |-> DEFAULT_PROPS.width, height |-> DEFAULT_PROPS.height,
      borderSmoothness |-> 12,
      position |-> <<0, 100000, 0>>, rotation |-> <<0, 0, 0>>, scale |-> One,
      whileActive |-> <<>>, whileDisabled |-> <<>>,
      animateOnTap |-> TRUE, animateOnHover |-> TRUE,
      positionSpring |-> <<>>, rotationSpring |-> <<>> ]

Props(common, more) ==
    [k \in DOMAIN common \cup DOMAIN more |->
        IF k \in DOMAIN more THEN more[k] ELSE common[k]]

\* a stiff, strongly damped spring with a coarse threshold: a channel settles
\* within about a dozen frames
QuickSpring ==
    [ springStrength |-> 15, damping |-> <<1, 2>>, animationThreshold |-> 10000 ]

DefaultSpring ==
    [ springStrength |-> DEFAULT_PROPS.springStrength,
      damping |-> DEFAULT_PROPS.damping,
      animationThreshold |-> DEFAULT_PROPS.animationThreshold ]

\* the component: hovering moves, turns and fades the panel, a tap widens it
TransformPanel(spring) ==
    Props(Props(CommonProps, spring),
          [ variant |-> "component",
            borderRadius |-> Num(DEFAULT_PROPS.borderRadius),
            whileHover |-> <<[x |-> Num(200000), opacity |-> Num(500000),
                              rotateZ |-> Num(300000)]>>,
            whileTap |-> <<[width |-> Num(1500000)]>> ])

\* the component with animated radii: a circle that hovering narrows and a
\* tap flattens, with its own position spring
RadiusPanel(spring) ==
    Props(Props(CommonProps, spring),
          [ variant |-> "animatedRadius",
            borderRadius |-> Num(500000),
            whileHover |-> <<[width |-> Num(500000)]>>,
            whileTap |-> <<[height |-> Num(600000), y |-> Num(100000),
                            borderRadius |-> <<100000, 200000, 300000, 400000>>]>>,
            positionSpring |-> <<[strength |-> <<20>>, damping |-> <<>>]>> ])

\* the component with the default spring: hovering widens it from 1 to 1.5
WideningPanel ==
    Props(Props(CommonProps, DefaultSpring),
          [ variant |-> "component",
            borderRadius |-> Num(DEFAULT_PROPS.borderRadius),
            whileHover |-> <<[width |-> Num(1500000)]>>,
            whileTap |-> <<>> ])

\* a panel after its first render and effect, under a pointer that may
\* already be over it, with the button up or down
Mounted(panels, events) ==
    /\ NoCall
    /\ props \in panels
    /\ isHovered = FALSE
    /\ isPressed = FALSE
    /\ pointer \in [inside : BOOLEAN, down : BOOLEAN]
    /\ event = "none"
    /\ calls = <<>>
    /\ anim = UpdateBaseValues(InitialAnimationState(props), props, FALSE, FALSE)
    /\ geometryUpdateFlag = 0
    /\ shape = BuildShape(InitialAnimationState(props), props)
    /\ \E delta \in FrameDeltas :
          frame = [ delta |-> delta, widthAnimating |-> FALSE,
                    heightAnimating |-> FALSE, borderRadiusAnimating |-> FALSE,
                    geometryNeedsUpdate |-> FALSE ]
    /\ budget = events

InitFrame == Mounted({TransformPanel(QuickSpring), RadiusPanel(QuickSpring)}, MaxEvents)

SpecFrame == InitFrame /\ [][NextFrame]_vars

\* the component with the default spring, a circle: hovering scales it by 1.1
CirclePanel ==
    Props(Props(CommonProps, DefaultSpring),
          [ variant |-> "component",
            borderRadius |-> Num(500000),
            whileHover |-> <<[scale |-> Num(1100000)]>>,
            whileTap |-> <<>> ])

InitDefaults == Mounted({WideningPanel, CirclePanel}, MaxDefaultEvents)

SpecDefaults == InitDefaults /\ [][NextFrame]_vars

-----------------------------------------------------------------------------
(* The boundary polygon *)

\* angles are counted in steps of a 48th of a quarter turn
QuarterTurn == 48

\* Math.sin on the first quarter turn, in millionths, one entry per step
SinTable ==
    <<
       0, 32719, 65403, 98017, 130526, 162895, 195090,
       227076, 258819, 290285, 321439, 352250, 382683, 412707,
       442289, 471397, 500000, 528068, 555570, 582478, 608761,
       634393, 659346, 683592, 707107, 729864, 751840, 773010,
       793353, 812847, 831470, 849202, 866025, 881921, 896873,
       910864, 923880, 935906, 946930, 956940, 965926, 973877,
       980785, 986643, 991445, 995185, 997859, 999465, 1000000
    >>

\* Math.sin
Sin(angle) ==
    LET a == angle % (4 * QuarterTurn)
    IN  IF a <= QuarterTurn THEN SinTable[a + 1]
        ELSE IF a <= 2 * QuarterTurn THEN SinTable[2 * QuarterTurn - a + 1]
        ELSE IF a <= 3 * QuarterTurn THEN 0 - SinTable[a - 2 * QuarterTurn + 1]
        ELSE 0 - SinTable[4 * QuarterTurn - a + 1]

\* Math.cos
Cos(angle) == Sin(angle + QuarterTurn)

\* a mutant of createSmoothArc: the arc's start point is emitted as well
createSmoothArcFromStart(path, centerX, centerY, radius, startAngle, endAngle, segments) ==
    LET angleStep == (endAngle - startAngle) \div segments
        point(i) ==
            LET angle == startAngle + angleStep * (i - 1)
            IN  << centerX + MulFix(radius, Cos(angle)),
                   centerY + MulFix(radius, Sin(angle)) >>
    IN  path \o [i \in 1..(segments + 1) |-> point(i)]

\* a mutant of createSmoothArc: the arc's points are emitted from its end back
\* to its start
createSmoothArcBackwards(path, centerX, centerY, radius, startAngle, endAngle, segments) ==
    LET angleStep == (endAngle - startAngle) \div segments
        point(i) ==
            LET angle == startAngle + angleStep * (segments + 1 - i)
            IN  << centerX + MulFix(radius, Cos(angle)),
                   centerY + MulFix(radius, Sin(angle)) >>
    IN  path \o [i \in 1..segments |-> point(i)]

\* createSmoothArc: shape.lineTo for i = 1..segments
createSmoothArc(path, centerX, centerY, radius, startAngle, endAngle, segments) ==
    LET angleStep == (endAngle - startAngle) \div segments
        point(i) ==
            LET angle == startAngle + angleStep * i
            IN  << centerX + MulFix(radius, Cos(angle)),
                   centerY + MulFix(radius, Sin(angle)) >>
    IN  path \o [i \in 1..segments |-> point(i)]

\* createRoundedRectangleShape: the points of the path, in the order emitted
createRoundedRectangleShape(width, height, radius, smoothness) ==
    LET inputs == ShapeInputs(width, height, radius, smoothness)
        rTL == inputs.radii[1]
        rTR == inputs.radii[2]
        rBR == inputs.radii[3]
        rBL == inputs.radii[4]
        w2  == Half(width)
        h2  == Half(height)
        moved  == << <<rBL - w2, 0 - h2>> >>
        bottom == Append(moved, <<w2 - rBR, 0 - h2>>)
        arcBR  == IF rBR > 0
                  THEN createSmoothArc(bottom, w2 - rBR, rBR - h2, rBR,
                                       0 - QuarterTurn, 0, smoothness)
                  ELSE bottom
        right  == Append(arcBR, <<w2, h2 - rTR>>)
        arcTR  == IF rTR > 0
                  THEN createSmoothArc(right, w2 - rTR, h2 - rTR, rTR,
                                       0, QuarterTurn, smoothness)
                  ELSE right
        top    == Append(arcTR, <<rTL - w2, h2>>)
        arcTL  == IF rTL > 0
                  THEN createSmoothArc(top, rTL - w2, h2 - rTL, rTL,
                                       QuarterTurn, 2 * QuarterTurn, smoothness)
                  ELSE top
        left   == Append(arcTL, <<0 - w2, rBL - h2>>)
    IN  IF rBL > 0
        THEN createSmoothArc(left, rBL - w2, rBL - h2, rBL,
                             2 * QuarterTurn, 3 * QuarterTurn, smoothness)
        ELSE left

ShapeWidths == {One, 2 * One}

ShapeHeights == {600000, One}

ShapeRadii ==
    { Num(0 - 100000), Num(0), Num(200000), Num(300000), Num(500000), Num(800000),
      <<100000, 200000, 300000, 400000>>,
      <<500000, 500000, 200000, 200000>>,
      <<300000, 0 - 50000, 900000, 0>>,
      <<100000, 300000, 0, 200000>> }

ShapeSmoothness == {1, 2, 3, 4, 16}

InitGeometry ==
    /\ \E width \in ShapeWidths, height \in ShapeHeights, radius \in ShapeRadii :
         \/ call = [fn |-> "normalizeBorderRadius", width |-> width,
                    height |-> height, radius |-> radius]
         \/ \E smoothness \in ShapeSmoothness :
              call = [fn |-> "createRoundedRectangleShape", width |-> width,
                      height |-> height, radius |-> radius,
                      smoothness |-> smoothness]
    /\ ret = <<>>
    /\ steps = 0
    /\ NoPanel

\* normalizeBorderRadius under the bound its callers compute
CallNormalizeBorderRadius ==
    /\ call.fn = "normalizeBorderRadius"
    /\ ret = <<>>
    /\ ret' = <<normalizeBorderRadius(call.radius,
                                      Min(Half(call.width), Half(call.height)))>>
    /\ UNCHANGED <<call, steps>>
    /\ UNCHANGED panelVars

CallCreateRoundedRectangleShape ==
    /\ call.fn = "createRoundedRectangleShape"
    /\ ret = <<>>
    /\ ret' = <<createRoundedRectangleShape(call.width, call.height,
                                            call.radius, call.smoothness)>>
    /\ UNCHANGED <<call, steps>>
    /\ UNCHANGED panelVars

NextGeometry == CallNormalizeBorderRadius \/ CallCreateRoundedRectangleShape

SpecGeometry == InitGeometry /\ [][NextGeometry]_vars

-----------------------------------------------------------------------------
(* applyAnimation, called on every record of a family *)

\* the keys a record of the family may own, each with the value it then has
ApplyValues ==
    [ width |-> Num(1500000), height |-> Num(700000), scale |-> Num(1200000),
      scaleX |-> Num(800000), rotateX |-> Num(250000), rotateZ |-> Num(0 - 300000),
      x |-> Num(200000), opacity |-> Num(500000) ]

\* every record owning some of these keys, and two whose keys are present
\* with the value undefined
ApplyRecords ==
    { [k \in K |-> ApplyValues[k]] : K \in SUBSET DOMAIN ApplyValues }
        \cup { [width |-> Undefined, scale |-> Num(1200000)],
               [rotateX |-> Undefined, x |-> Undefined, opacity |-> Undefined] }

\* the base values of the panel the targets are applied to
ApplyBases ==
    { [ variant |-> "component", width |-> width, height |-> One, scale |-> scale,
        position |-> <<0, 100000, 0>>, rotation |-> rotation,
        borderRadius |-> Num(200000) ] :
        width \in {One, 600000}, scale \in {One, 2 * One},
        rotation \in { <<0, 0, 0>>, <<100000, 0, 0 - 200000>> } }

InitApply ==
    /\ \E p \in ApplyBases, animation \in ApplyRecords :
         \/ call = [fn |-> "applyAnimation", props |-> p, animation |-> animation,
                    state |-> InitialAnimationState(p)]
         \/ call = [fn |-> "hookApplyAnimation", props |-> p, animation |-> animation,
                    state |-> HookInitialAnimationState(p)]
    /\ ret = <<>>
    /\ steps = 0
    /\ NoPanel

CallApplyAnimation ==
    /\ call.fn = "applyAnimation"
    /\ ret = <<>>
    /\ ret' = <<applyAnimation(call.state, call.animation)>>
    /\ UNCHANGED <<call, steps>>
    /\ UNCHANGED panelVars

CallHookApplyAnimation ==
    /\ call.fn = "hookApplyAnimation"
    /\ ret = <<>>
    /\ ret' = <<hookApplyAnimation(call.state, call.animation)>>
    /\ UNCHANGED <<call, steps>>
    /\ UNCHANGED panelVars

NextApply == CallApplyAnimation \/ CallHookApplyAnimation

SpecApply == InitApply /\ [][NextApply]_vars

-----------------------------------------------------------------------------
(* The frame loop of useLiquidGlassAnimation *)

\* springStep(current, target, velocity, delta, config) of the hook:
\* [newValue, newVelocity, settled]; settled, with the value snapped to the
\* target, when the displacement and the new velocity are both below the
\* threshold
hookSpringStep(current, target, velocity, delta, config) ==
    LET displacement == target - current
        springForce  == displacement * config.stiffness
        newVelocity  == MulFrac(velocity + MulFrac(springForce, delta), config.damping)
        newValue     == current + MulFrac(newVelocity * TimeScale, delta)
        settled      == /\ Abs(displacement) < config.threshold
                        /\ Abs(newVelocity) < config.threshold
    IN  IF settled THEN <<target, 0, TRUE>> ELSE <<newValue, newVelocity, FALSE>>

\* springStep3D: the three axes stepped one by one, settled when all are
hookSpringStep3D(current, target, velocity, delta, config) ==
    LET axis(i) == hookSpringStep(current[i], target[i], velocity[i], delta, config)
    IN  << [i \in 1..3 |-> axis(i)[1]], [i \in 1..3 |-> axis(i)[2]],
           \A i \in 1..3 : axis(i)[3] >>

\* getTransitionConfig: the legacy spring props over the default transition
getTransitionConfig(p) ==
    [ stiffness |-> p.springStrength, damping |-> p.damping,
      threshold |-> p.animationThreshold ]

\* a mutant of CompletionFires: the callback fires on every frame that ends
\* with all channels settled
CompletionFiresWheneverSettled(wasAnimating, allSettled, completionFired) ==
    allSettled

\* wasAnimating && allSettled && !completionFired.current
CompletionFires(wasAnimating, allSettled, completionFired) ==
    wasAnimating /\ allSettled /\ ~completionFired

\* the useFrame callback of the hook; what the frames call is collected in
\* calls from one application of targets to the next
HookTick ==
    /\ props.visible
    /\ LET delta  == frame.delta
           config == getTransitionConfig(props)
           w   == hookSpringStep(anim.currentWidth, anim.targetWidth,
                                 anim.widthVelocity, delta, config)
           h   == hookSpringStep(anim.currentHeight, anim.targetHeight,
                                 anim.heightVelocity, delta, config)
           sz  == hookSpringStep(anim.currentScaleZ, anim.targetScaleZ,
                                 anim.scaleZVelocity, delta, config)
           pos == hookSpringStep3D(anim.currentPosition, anim.targetPosition,
                                   anim.positionVelocity, delta, config)
           rot == hookSpringStep3D(anim.currentRotation, anim.targetRotation,
                                   anim.rotationVelocity, delta, config)
           op  == hookSpringStep(anim.currentOpacity, anim.targetOpacity,
                                 anim.opacityVelocity, delta, config)
           allSettled == w[3] /\ h[3] /\ sz[3] /\ pos[3] /\ rot[3] /\ op[3]
           geometryNeedsUpdate == ~w[3] \/ ~h[3]
           wasAnimating == anim.isAnimating
           fires == CompletionFires(wasAnimating, allSettled, anim.completionFired)
       IN  /\ anim' = [ anim EXCEPT
                          !.currentWidth = w[1], !.widthVelocity = w[2],
                          !.currentHeight = h[1], !.heightVelocity = h[2],
                          !.currentScaleZ = sz[1], !.scaleZVelocity = sz[2],
                          !.currentPosition = pos[1], !.positionVelocity = pos[2],
                          !.currentRotation = rot[1], !.rotationVelocity = rot[2],
                          !.currentOpacity = op[1], !.opacityVelocity = op[2],
                          !.isAnimating = ~allSettled,
                          !.completionFired = IF fires THEN TRUE ELSE @,
                          !.hasInitialized = IF fires THEN TRUE ELSE @ ]
           /\ calls' = IF fires
                       THEN calls \o Invoke(<<Callback("onAnimationComplete")>>)
                       ELSE calls
           /\ frame' = [ frame EXCEPT
                           !.allSettled = allSettled,
                           !.geometryNeedsUpdate = geometryNeedsUpdate ]
    /\ event' = "frame"
    /\ UNCHANGED <<props, isHovered, isPressed, pointer, geometryUpdateFlag, shape, budget>>
    /\ UNCHANGED pureVars

\* the two effects of the hook after a render with changed props or flags:
\* the base values follow the props and the resolved record is applied
HookEffects ==
    /\ budget > 0
    /\ budget' = budget - 1
    /\ anim' = hookApplyAnimation(
                   [ anim EXCEPT !.basePosition = props'.position,
                                 !.baseRotation = props'.rotation,
                                 !.baseWidth = props'.width,
                                 !.baseHeight = props'.height ],
                   hookGetCurrentAnimation(props', isPressed', isHovered'))
    /\ event' = "props"
    /\ calls' = <<>>
    /\ UNCHANGED <<pointer, geometryUpdateFlag, shape, frame>>
    /\ UNCHANGED pureVars

\* the owner passes another isHovered
HookSetHovered ==
    /\ isHovered' = ~isHovered
    /\ UNCHANGED <<props, isPressed>>
    /\ HookEffects

\* the owner passes another isPressed
HookSetPressed ==
    /\ isPressed' = ~isPressed
    /\ UNCHANGED <<props, isHovered>>
    /\ HookEffects

\* the owner passes another active
HookSetActive ==
    /\ props' = [props EXCEPT !.active = ~props.active]
    /\ UNCHANGED <<isHovered, isPressed>>
    /\ HookEffects

\* the owner passes another disabled
HookSetDisabled ==
    /\ props' = [props EXCEPT !.disabled = ~props.disabled]
    /\ UNCHANGED <<isHovered, isPressed>>
    /\ HookEffects

NextHook ==
    \/ HookTick
    \/ HookSetHovered
    \/ HookSetPressed
    \/ HookSetActive
    \/ HookSetDisabled

\* the most changes of flags in one run of the hook
MaxHookEvents == 2

\* the props of the hook: hovering widens and fades the panel, a tap and the
\* active state scale it by the defaults
HookPanel ==
    Props(QuickSpring,
          [ variant |-> "hook", callbacks |-> {"onAnimationComplete"},
            active |-> FALSE, disabled |-> FALSE, visible |-> TRUE,
            width |-> DEFAULT_PROPS.width, height |-> DEFAULT_PROPS.height,
            position |-> <<0, 100000, 0>>, rotation |-> <<0, 0, 0>>,
            whileHover |-> <<[width |-> Num(1500000), opacity |-> Num(500000)]>>,
            whileTap |-> <<>>, whileActive |-> <<>>, whileDisabled |-> <<>>,
            animate |-> <<>> ])

\* the hook after its first render and effects
InitHook ==
    /\ NoCall
    /\ props = HookPanel
    /\ isHovered \in BOOLEAN
    /\ isPressed = FALSE
    /\ pointer = <<>>
    /\ event = "none"
    /\ calls = <<>>
    /\ anim = hookApplyAnimation(HookInitialAnimationState(props),
                                 hookGetCurrentAnimation(props, isPressed, isHovered))
    /\ geometryUpdateFlag = 0
    /\ shape = <<>>
    /\ \E delta \in FrameDeltas :
          frame = [ delta |-> delta, allSettled |-> FALSE,
                    geometryNeedsUpdate |-> FALSE ]
    /\ budget = MaxHookEvents

SpecHook == InitHook /\ [][NextHook]_vars

-----------------------------------------------------------------------------
(* C1, C2 *)

Returned == ret # <<>>

\* the layer beneath the state layers: whileActive or its default when active
ActiveLayer(p) ==
    IF p.active
    THEN OrDefault(p.whileActive, DEFAULT_ANIMATIONS.whileActive)
    ELSE EmptyRecord

\* the record the precedence Disabled > Pressed > Hovered selects, merged
\* over the layer beneath it
Layered(p, pressed, hovered, beneath) ==
    IF p.disabled
    THEN merge2(beneath, OrDefault(p.whileDisabled, DEFAULT_ANIMATIONS.whileDisabled))
    ELSE IF pressed
    THEN merge2(beneath, OrDefault(p.whileTap, DEFAULT_ANIMATIONS.whileTap))
    ELSE IF hovered
    THEN merge2(beneath, OrDefault(p.whileHover, DEFAULT_ANIMATIONS.whileHover))
    ELSE beneath

\* C1: for every combination of active, disabled, pressed, hovered and every
\* set of supplied per-state records, the component's resolver returns the
\* record of the highest state set (disabled, else pressed, else hovered)
\* merged over the active layer, and the active layer alone when none is set;
\* the hook's resolver returns the same whenever its animate prop is not
\* supplied, and the same over animate merged beneath the active layer when
\* it is.
C1_ResolverPrecedence ==
    Returned =>
        /\ call.fn = "getCurrentAnimation" =>
             ret[1] = Layered(call.props, call.isPressed, call.isHovered,
                              ActiveLayer(call.props))
        /\ call.fn = "hookGetCurrentAnimation" =>
             ret[1] = Layered(call.props, call.isPressed, call.isHovered,
                              IF call.props.animate = <<>>
                              THEN ActiveLayer(call.props)
                              ELSE merge2(call.props.animate[1], ActiveLayer(call.props)))

\* C1 witness: active and disabled both set, both records supplied, and the
\* result is the disabled record over the active one, not the active one
C1_Witness ==
    /\ Returned
    /\ call.fn = "getCurrentAnimation"
    /\ call.props.active /\ call.props.disabled
    /\ call.props.whileActive = <<[scale |-> Num(1200000)]>>
    /\ call.props.whileDisabled = <<[opacity |-> Num(800000), x |-> Num(100000)]>>
    /\ ret[1] = [scale |-> Num(1200000), opacity |-> Num(800000), x |-> Num(100000)]
    /\ ret[1] # call.props.whileActive[1]

\* the positions of the arguments that define key k
Defining(animations, k) ==
    {i \in 1..Len(animations) :
        animations[i] # <<>> /\ IsDefined(animations[i][1], k)}

Last(S) == CHOOSE i \in S : \A j \in S : j <= i

\* C2: mergeAnimations merges field by field with later records winning: for
\* every field the result holds the value of the last record in which that
\* field is defined, and a field that is undefined in a later record (absent,
\* or present with the value undefined) never overwrites a value defined by
\* an earlier record.
C2_LastDefinedWins ==
    (Returned /\ call.fn = "mergeAnimations") =>
        \A k \in Keys :
            Defining(call.animations, k) # {} =>
                /\ k \in DOMAIN ret[1]
                /\ ret[1][k] = call.animations[Last(Defining(call.animations, k))][1][k]

-----------------------------------------------------------------------------
(* C6, C7 *)

\* the run of C6: current 0, target 1, velocity 0, stiffness 15, damping 0.8,
\* threshold 0.001, delta 1/60
IsDefaultRun ==
    /\ call.fn = "springStep"
    /\ "start" \in DOMAIN call
    /\ call.start = 0 /\ call.target = One
    /\ call.delta = <<1, 60>>
    /\ call.strength = 15 /\ call.damping = <<4, 5>> /\ call.threshold = 1000

\* the last step returned the settled state: target, velocity 0, not animating
ReturnedSettled == Returned /\ ret[1] = <<call.target, 0, FALSE>>

\* the channel rests at its target, before or after a step
ChannelSettled ==
    IF Returned THEN ReturnedSettled
    ELSE call.current = call.target /\ call.velocity = 0

\* C6: from current 0, velocity 0 and target 1 with the default parameters
\* and delta 1/60, the channel is settled (current exactly 1, velocity
\* exactly 0) after at most 200 steps, and once settled it stays settled on
\* every later step.
C6_SettlesWithin200 ==
    /\ [](IsDefaultRun /\ Returned /\ steps >= 200 => ReturnedSettled)
    /\ [][IsDefaultRun /\ steps > 0 /\ ChannelSettled => ChannelSettled']_vars

\* C6 witness: the 200th step of the default run has returned the settled state
C6_Witness == IsDefaultRun /\ steps = 200 /\ ReturnedSettled

\* C7: a step applied to a channel with current = target and velocity 0
\* returns current, target and velocity unchanged and reports the channel as
\* not animating, for every delta, stiffness, damping and threshold >= 0, in
\* the scalar springStep and for each corner in springStepBorderRadius.
C7_IdempotentAtRest ==
    Returned =>
        /\ (call.fn = "springStep" /\ "start" \notin DOMAIN call
              /\ call.current = call.target /\ call.velocity = 0)
             => ret[1] = <<call.current, 0, FALSE>>
        /\ call.fn = "springStepBorderRadius" =>
             /\ \A i \in 1..4 :
                  (call.current[i] = call.target[i] /\ call.velocity[i] = 0) =>
                     ret[1][1][i] = call.current[i] /\ ret[1][2][i] = 0
             /\ (call.current = call.target /\ call.velocity = <<0, 0, 0, 0>>)
                  => ret[1] = <<call.current, call.velocity, FALSE>>

\* C7 witness: a scalar channel at rest at 1.5 was stepped with a threshold of
\* 0 and the result is at rest
C7_Witness ==
    /\ Returned
    /\ call.fn = "springStep"
    /\ call.current = 1500000 /\ call.target = 1500000 /\ call.velocity = 0
    /\ call.threshold = 0 /\ call.strength = 25
    /\ ret[1] = <<1500000, 0, FALSE>>

-----------------------------------------------------------------------------
(* C3 *)

\* the calls of callback name made while handling the last event
CallsOf(name) == SelectSeq(calls, LAMBDA c : c.cb = name)

\* C3: onClick is called only by a pointer-release handled while disabled is
\* false, at most once per release; an onClick call comes with exactly one
\* onToggle call in the same release, whose argument is the negation of the
\* active prop at that moment (onToggle being supplied); an onToggle call is
\* made by such a release only; and no handler calls onClick or onToggle
\* while disabled is true.
C3_ClickOnEnabledRelease ==
    /\ Len(CallsOf("onClick")) <= 1
    /\ Len(CallsOf("onToggle")) <= 1
    /\ (CallsOf("onClick") # <<>> \/ CallsOf("onToggle") # <<>>) =>
          event = "pointerup" /\ ~props.disabled
    /\ (CallsOf("onClick") # <<>> /\ "onToggle" \in props.callbacks) =>
          CallsOf("onToggle") = <<CallbackWith("onToggle", ~props.active)>>
    /\ CallsOf("onToggle") # <<>> =>
          CallsOf("onToggle") = <<CallbackWith("onToggle", ~props.active)>>

\* C3 witness: a release on an enabled, active panel called onClick and
\* onToggle(false)
C3_Witness ==
    /\ event = "pointerup"
    /\ ~props.disabled /\ props.active
    /\ CallsOf("onClick") = <<Callback("onClick")>>
    /\ CallsOf("onToggle") = <<CallbackWith("onToggle", FALSE)>>


-----------------------------------------------------------------------------
(* C4, C5, C8 *)

\* a frame callback is the step being taken
IsTick == event' = "frame"

WidthAtRest == anim.currentWidth = anim.targetWidth /\ anim.widthVelocity = 0

HeightAtRest == anim.currentHeight = anim.targetHeight /\ anim.heightVelocity = 0

RadiiAtRest ==
    /\ anim.currentBorderRadius = anim.targetBorderRadius
    /\ anim.borderRadiusVelocity = <<0, 0, 0, 0>>

TransformMoving ==
    \/ anim.currentPosition # anim.targetPosition
    \/ anim.currentRotation # anim.targetRotation
    \/ anim.currentOpacity # anim.targetOpacity

\* C4: a frame that starts with the width, the height and the corner radii at
\* rest at their targets leaves the geometry update flag, and the boundary
\* built last, as they were, whatever the position, rotation, scale and
\* opacity channels do (the animation threshold is not negative).
C4_NoRebuildAtRest ==
    [][ IsTick /\ WidthAtRest /\ HeightAtRest /\ RadiiAtRest
          => geometryUpdateFlag' = geometryUpdateFlag /\ shape' = shape ]_vars

\* a frame has moved the position on its way to the hover target while the
\* geometry channels rest and no rebuild was ever flagged
C4_Witness ==
    /\ event = "frame"
    /\ WidthAtRest /\ HeightAtRest /\ RadiiAtRest
    /\ TransformMoving
    /\ anim.currentPosition # props.position
    /\ geometryUpdateFlag = 0

\* the width target has been moved from the base width 1 to 1.5, the height
\* rests
WidthMovedTo15 ==
    /\ anim.baseWidth = One
    /\ anim.targetWidth = 1500000
    /\ HeightAtRest

C8_CurrentRadiiWithinHalf ==
    props # <<>> /\ props.variant = "animatedRadius"
        => \A i \in 1..4 :
              2 * anim.currentBorderRadius[i]
                  <= Min(anim.currentWidth, anim.currentHeight)

-----------------------------------------------------------------------------
(* C9, C10 *)

Normalized == call.fn = "normalizeBorderRadius" /\ ret # <<>>

RadiusEntry(i) == IF Len(call.radius) = 1 THEN call.radius[1] ELSE call.radius[i]

RadiusBound == Min(Half(call.width), Half(call.height))

\* C9: normalizeBorderRadius returns, for each corner, the radius itself when
\* it lies within 0 and the bound min(width, height)/2, the bound when it
\* exceeds the bound, and a clamped value (not the radius itself) when it is
\* negative.
C9_ClampsIntoRange ==
    Normalized =>
        \A i \in 1..4 :
            LET r == RadiusEntry(i)
                m == RadiusBound
            IN  /\ (0 <= r /\ r <= m) => ret[1][i] = r
                /\ r > m => ret[1][i] = m
                /\ r < 0 => ret[1][i] # r /\ ret[1][i] >= 0

Built == call.fn = "createRoundedRectangleShape" /\ ret # <<>>

Points == ret[1]

Radii == ShapeInputs(call.width, call.height, call.radius, call.smoothness).radii

AllRadiiPositive == \A i \in 1..4 : Radii[i] > 0

\* every straight edge is longer than nothing
EdgesPositive ==
    /\ Radii[4] + Radii[3] < call.width
    /\ Radii[2] + Radii[1] < call.width
    /\ Radii[3] + Radii[2] < call.height
    /\ Radii[1] + Radii[4] < call.height

\* the vertices of the boundary: the emitted points, the closing one left out
BoundaryVertices == {Points[i] : i \in 1..(Len(Points) - 1)}

NoConsecutiveDuplicates == \A i \in 1..(Len(Points) - 1) : Points[i] # Points[i + 1]

Closed == Points[Len(Points)] = Points[1]

WellFormed ==
    /\ Len(Points) = 4 * call.smoothness + 5
    /\ Cardinality(BoundaryVertices) = 4 * call.smoothness + 4
    /\ NoConsecutiveDuplicates
    /\ Closed

\* C10 as stated: whenever the four clamped radii are positive, radii of half
\* the smaller dimension included, the polygon has 4s + 4 boundary vertices,
\* no two consecutive points equal, and ends on its first point.
C10_WellFormedForPositiveRadii == Built /\ AllRadiiPositive => WellFormed

\* C10: whenever the four clamped radii are positive, the polygon is emitted
\* as 4s + 5 points that end on the first one; if moreover every straight
\* edge between two corners has positive length, it has exactly 4s + 4
\* boundary vertices and no two consecutive points are equal.
C10_WellFormedForPositiveEdges ==
    Built /\ AllRadiiPositive =>
        /\ Len(Points) = 4 * call.smoothness + 5
        /\ Closed
        /\ EdgesPositive => WellFormed

\* build(2, 1, [0.3, 0.3, 0.3, 0.3], 16) has 68 boundary vertices
C10_Witness ==
    /\ Built
    /\ call.width = 2 * One /\ call.height = One
    /\ call.radius = Num(300000) /\ call.smoothness = 16
    /\ AllRadiiPositive /\ EdgesPositive
    /\ Cardinality(BoundaryVertices) = 68
    /\ WellFormed

-----------------------------------------------------------------------------
(* C11 *)

\* the product a * b as <<millions, rest>> with 0 <= rest < One, exact for
\* factors of a few millions
Wide(a, b) ==
    LET ah  == a \div 1000
        al  == a % 1000
        bh  == b \div 1000
        bl  == b % 1000
        mid == ah * bl + al * bh
        low == (mid % 1000) * 1000 + al * bl
    IN  << ah * bh + (mid \div 1000) + (low \div One), low % One >>

\* the sign of a - b for two such products
SignOfDifference(a, b) ==
    IF a[1] # b[1] THEN (IF a[1] > b[1] THEN 1 ELSE 0 - 1)
    ELSE IF a[2] # b[2] THEN (IF a[2] > b[2] THEN 1 ELSE 0 - 1)
    ELSE 0

\* on which side of the line from a to b the point c lies
Orientation(a, b, c) ==
    SignOfDifference(Wide(b[1] - a[1], c[2] - a[2]), Wide(b[2] - a[2], c[1] - a[1]))

\* c lies in the bounding box of a and b
InBox(a, b, c) ==
    /\ Min(a[1], b[1]) <= c[1] /\ c[1] <= 0 - Min(0 - a[1], 0 - b[1])
    /\ Min(a[2], b[2]) <= c[2] /\ c[2] <= 0 - Min(0 - a[2], 0 - b[2])

\* the segments from a to b and from c to d have a point in common
Intersect(a, b, c, d) ==
    LET o1 == Orientation(a, b, c)
        o2 == Orientation(a, b, d)
        o3 == Orientation(c, d, a)
        o4 == Orientation(c, d, b)
    IN  \/ o1 # o2 /\ o3 # o4
        \/ o1 = 0 /\ InBox(a, b, c)
        \/ o2 = 0 /\ InBox(a, b, d)
        \/ o3 = 0 /\ InBox(c, d, a)
        \/ o4 = 0 /\ InBox(c, d, b)

\* the emitted points that start a segment of positive length, in order; the
\* path closes from its last point to its first
SegmentStarts ==
    SelectSeq([i \in 1..Len(Points) |-> i],
              LAMBDA i : Points[i] # Points[(i % Len(Points)) + 1])

SegmentFrom(k) == Points[SegmentStarts[k]]

SegmentTo(k) == Points[(SegmentStarts[k] % Len(Points)) + 1]

\* every radius given lies between 0 and min(width, height)/2
RespectsClamp ==
    \A i \in 1..Len(call.radius) :
        0 <= call.radius[i] /\ 2 * call.radius[i] <= Min(call.width, call.height)

\* C11: for radii that respect the clamp invariant, no two boundary segments
\* of the built polygon that are not neighbours on the closed boundary have a
\* point in common (a boundary segment joins two successive distinct points).
C11_Simple ==
    Built /\ RespectsClamp =>
        LET n == Len(SegmentStarts)
        IN  \A j \in 1..n, k \in 1..n :
                (j + 1 < k /\ ~(j = 1 /\ k = n))
                    => ~Intersect(SegmentFrom(j), SegmentTo(j),
                                  SegmentFrom(k), SegmentTo(k))

\* a polygon with four different radii, one of them a sharp corner, built
\* with several segments per arc
C11_Witness ==
    /\ Built /\ RespectsClamp
    /\ call.radius = <<100000, 300000, 0, 200000>>
    /\ call.smoothness = 16
    /\ Len(SegmentStarts) = 3 * 16 + 4

-----------------------------------------------------------------------------
(* C12 *)

\* the radius a corner is expected to be drawn with: its own entry of
\* [topLeft, topRight, bottomRight, bottomLeft], at most the bound
CornerRadius(i) == Min(RadiusEntry(i), RadiusBound)

\* how many arc points a corner is expected to contribute
ArcPoints(i) == IF CornerRadius(i) > 0 THEN call.smoothness ELSE 0

\* the emitted points from index first on, n of them
Slice(first, n) == [i \in 1..n |-> Points[first + i - 1]]

\* the points of an arc stay in the corner's square and end on the tangent
\* point of the next edge
ArcWithin(arc, xLow, xHigh, yLow, yHigh, tangent) ==
    /\ \A i \in 1..Len(arc) :
          /\ xLow <= arc[i][1] /\ arc[i][1] <= xHigh
          /\ yLow <= arc[i][2] /\ arc[i][2] <= yHigh
    /\ Len(arc) > 0 => arc[Len(arc)] = tangent

\* bottom edge, bottom-right arc, right edge, top-right arc, top edge,
\* top-left arc, left edge, bottom-left arc, each arc from its own corner's
\* radius, no arc points for a corner without a positive radius
WalkOrder ==
    LET w2  == Half(call.width)
        h2  == Half(call.height)
        rTL == CornerRadius(1)
        rTR == CornerRadius(2)
        rBR == CornerRadius(3)
        rBL == CornerRadius(4)
        right == 3 + ArcPoints(3)
        top   == right + 1 + ArcPoints(2)
        left  == top + 1 + ArcPoints(1)
    IN  /\ Len(Points) = left + ArcPoints(4)
        /\ Points[1] = <<rBL - w2, 0 - h2>>
        /\ Points[2] = <<w2 - rBR, 0 - h2>>
        /\ ArcWithin(Slice(3, ArcPoints(3)), w2 - rBR, w2, 0 - h2, rBR - h2,
                     <<w2, rBR - h2>>)
        /\ Points[right] = <<w2, h2 - rTR>>
        /\ ArcWithin(Slice(right + 1, ArcPoints(2)), w2 - rTR, w2, h2 - rTR, h2,
                     <<w2 - rTR, h2>>)
        /\ Points[top] = <<rTL - w2, h2>>
        /\ ArcWithin(Slice(top + 1, ArcPoints(1)), 0 - w2, rTL - w2, h2 - rTL, h2,
                     <<0 - w2, h2 - rTL>>)
        /\ Points[left] = <<0 - w2, rBL - h2>>
        /\ ArcWithin(Slice(left + 1, ArcPoints(4)), 0 - w2, rBL - w2, 0 - h2, rBL - h2,
                     <<rBL - w2, 0 - h2>>)

\* the turn taken from boundary segment k to the next one on the closed
\* boundary: 1 to the left, -1 to the right, 0 straight on
Turn(k) ==
    LET next == (k % Len(SegmentStarts)) + 1
    IN  Orientation(SegmentFrom(k), SegmentTo(k), SegmentTo(next))

\* with bottom at -height/2 and right at +width/2, as the code names them
CounterClockwise ==
    /\ \A k \in 1..Len(SegmentStarts) : Turn(k) >= 0
    /\ \E k \in 1..Len(SegmentStarts) : Turn(k) > 0

Clockwise ==
    /\ \A k \in 1..Len(SegmentStarts) : Turn(k) <= 0
    /\ \E k \in 1..Len(SegmentStarts) : Turn(k) < 0

NoNegativeRadius == \A i \in 1..4 : RadiusEntry(i) >= 0

\* C12 as stated: the boundary is walked in the order bottom edge,
\* bottom-right arc, right edge, top-right arc, top edge, top-left arc, left
\* edge, bottom-left arc, each arc from its own corner's radius and none for
\* a radius of 0, and this walk is clockwise.
C12_ClockwiseWalk ==
    Built /\ NoNegativeRadius => WalkOrder /\ Clockwise

\* C12: the boundary is walked in the order bottom edge, bottom-right arc,
\* right edge, top-right arc, top edge, top-left arc, left edge, bottom-left
\* arc, each arc from its own corner's radius and none for a radius of 0; for
\* radii that are not negative this walk is counter-clockwise.
C12_CounterClockwiseWalk ==
    Built => /\ WalkOrder
             /\ NoNegativeRadius => CounterClockwise

\* four different radii, the bottom-right corner sharp: its edges meet in
\* the one vertex (width/2, -height/2)
C12_Witness ==
    /\ Built
    /\ call.radius = <<100000, 300000, 0, 200000>>
    /\ call.smoothness = 4
    /\ Len(Points) = 5 + 3 * 4
    /\ Points[2] = <<Half(call.width), 0 - Half(call.height)>>
    /\ Points[3] = <<Half(call.width), Half(call.height) - 300000>>
    /\ WalkOrder /\ CounterClockwise

-----------------------------------------------------------------------------
(* C13 *)

Applied == call.fn \in {"applyAnimation", "hookApplyAnimation"} /\ ret # <<>>

\* C13: for a record without scaleX and scaleY, an explicit width in the
\* record is the width target and an explicit height is the height target,
\* also when the record holds a scale; base x scale is the target of a
\* dimension only if the record does not give that dimension.
C13_ExplicitDimensionWins ==
    (Applied /\ ~IsDefined(call.animation, "scaleX")
             /\ ~IsDefined(call.animation, "scaleY")) =>
        /\ IsDefined(call.animation, "width")
              => ret[1].targetWidth = call.animation.width[1]
        /\ IsDefined(call.animation, "height")
              => ret[1].targetHeight = call.animation.height[1]

-----------------------------------------------------------------------------
(* C14 *)

\* every channel of the component is at its target with no velocity
AllSettled ==
    /\ WidthAtRest /\ HeightAtRest
    /\ anim.currentScale = anim.targetScale /\ anim.scaleVelocity = 0
    /\ anim.currentPosition = anim.targetPosition
    /\ anim.positionVelocity = <<0, 0, 0>>
    /\ anim.currentRotation = anim.targetRotation
    /\ anim.rotationVelocity = <<0, 0, 0>>
    /\ anim.currentOpacity = anim.targetOpacity /\ anim.opacityVelocity = 0

\* the circle of width 1 and height 1 is hovered with whileHover = {scale: 1.1}
CircleHovered ==
    /\ props = CirclePanel
    /\ isHovered /\ ~isPressed

\* C14: once the hovered circle with whileHover = {scale: 1.1} has been ticked
\* until every channel has settled, its current width and its current height
\* are both 1.1.
C14_HoveredCircleSettlesAt11 ==
    (CircleHovered /\ event = "frame" /\ AllSettled) =>
        /\ anim.currentWidth = 1100000
        /\ anim.currentHeight = 1100000

-----------------------------------------------------------------------------
(* C15 *)

\* the record the mounted panel resolves from its props and flags
ResolvedRecord ==
    IF props.variant = "animatedRadius"
    THEN radiusGetCurrentAnimation(props, isPressed, isHovered)
    ELSE getCurrentAnimation(props, isPressed, isHovered)

RotateFields ==
    << OrElse(ResolvedRecord, "rotateX", 0),
       OrElse(ResolvedRecord, "rotateY", 0),
       OrElse(ResolvedRecord, "rotateZ", 0) >>

\* C15: each rotation target is the base rotation plus the resolved record's
\* rotateX, rotateY, rotateZ (plus 0 for a field not set), and a change of
\* the rotation prop moves each rotation target by as much as the prop moved.
C15_RotationAddedToBase ==
    /\ [](\A i \in 1..3 :
             anim.targetRotation[i] = props.rotation[i] + RotateFields[i])
    /\ [][ props'.rotation # props.rotation =>
             \A i \in 1..3 :
                 anim'.targetRotation[i] - anim.targetRotation[i]
                     = props'.rotation[i] - props.rotation[i] ]_vars

\* the hovered panel with whileHover rotateZ = 0.3 after its rotation prop
\* became (0.1, 0, -0.2): the target about z is 0.1, not 0.3
C15_Witness ==
    /\ props.rotation = <<100000, 0, 0 - 200000>>
    /\ isHovered /\ ~isPressed /\ ~props.disabled
    /\ RotateFields = <<0, 0, 300000>>
    /\ anim.targetRotation = <<100000, 0, 100000>>

-----------------------------------------------------------------------------
(* C16 *)

NoFlagSet == ~props.active /\ ~props.disabled /\ ~isPressed /\ ~isHovered

TargetsAtBase ==
    /\ anim.targetPosition = props.position
    /\ anim.targetRotation = props.rotation
    /\ anim.targetWidth = props.width
    /\ anim.targetHeight = props.height
    /\ anim.targetScale = props.scale
    /\ anim.targetOpacity = One

\* C16: whatever happened before, while the panel is not active, not
\* disabled, not pressed and not hovered, the position, rotation, width,
\* height and scale targets are the base values of the props and the opacity
\* target is 1.
C16_UnsetFieldsFallBackToBase == NoFlagSet => TargetsAtBase

\* the pointer has left the panel while the hover motion was in flight: the
\* targets are back at the base, the current values are not yet
C16_Witness ==
    /\ event = "pointerleave"
    /\ NoFlagSet
    /\ TargetsAtBase
    /\ anim.currentOpacity # One
    /\ anim.currentPosition # props.position
    /\ anim.currentRotation # props.rotation

-----------------------------------------------------------------------------
(* C17 *)

\* animateOnTap is false, no whileTap is supplied, the panel is pressed and
\* not disabled
PressedWithoutTapAnimation ==
    /\ call.fn = "radiusGetCurrentAnimation" /\ Returned
    /\ ~call.props.animateOnTap /\ call.props.whileTap = <<>>
    /\ call.isPressed /\ ~call.props.disabled

\* the hover layer of the panel, if it has one
HoverLayer(p) ==
    IF p.whileHover # <<>> THEN p.whileHover[1]
    ELSE IF p.animateOnHover THEN DEFAULT_ANIMATIONS.whileHover
    ELSE EmptyRecord

\* C17 as stated: with animateOnTap = false and no whileTap, the record
\* resolved while pressed and not disabled is the active layer alone, also
\* while the pointer hovers the panel.
C17_PressResolvesActiveLayerAlone ==
    PressedWithoutTapAnimation => ret[1] = ActiveLayer(call.props)

\* C17: with animateOnTap = false and no whileTap, the press changes nothing:
\* the record resolved while pressed and not disabled is the one resolved
\* without the press, the active layer alone while the pointer does not hover
\* and the hover layer merged over the active layer while it does.
C17_PressChangesNothing ==
    PressedWithoutTapAnimation =>
        ret[1] = IF call.isHovered
                 THEN merge2(ActiveLayer(call.props), HoverLayer(call.props))
                 ELSE ActiveLayer(call.props)

\* pressed while hovering a panel with a whileHover record: the hover record
\* is resolved
C17_Witness ==
    /\ PressedWithoutTapAnimation
    /\ call.isHovered /\ ~call.props.active
    /\ call.props.whileHover = <<[scale |-> Num(1200000)]>>
    /\ ret[1] = [scale |-> Num(1200000)]

-----------------------------------------------------------------------------
(* C18 *)

Completes == calls = <<Callback("onAnimationComplete")>>

\* every channel of the hook is at its target with no velocity
HookAllSettled ==
    /\ anim.currentWidth = anim.targetWidth /\ anim.widthVelocity = 0
    /\ anim.currentHeight = anim.targetHeight /\ anim.heightVelocity = 0
    /\ anim.currentScaleZ = anim.targetScaleZ /\ anim.scaleZVelocity = 0
    /\ anim.currentPosition = anim.targetPosition
    /\ anim.positionVelocity = <<0, 0, 0>>
    /\ anim.currentRotation = anim.targetRotation
    /\ anim.rotationVelocity = <<0, 0, 0>>
    /\ anim.currentOpacity = anim.targetOpacity /\ anim.opacityVelocity = 0

\* C18: from one application of targets to the next onAnimationComplete is
\* called at most once, and only by a frame that ends with every channel
\* (width, height, scaleZ, position, rotation, opacity) settled.
C18_CompletesOncePerApplication ==
    /\ [](Len(calls) <= 1)
    /\ [][ IsTick /\ calls' # calls =>
             /\ calls' = Append(calls, Callback("onAnimationComplete"))
             /\ HookAllSettled' ]_vars

\* the hover animation of the hook has just completed: the width has arrived
\* at 1.5 and the callback was called by the last frame
C18_Witness ==
    /\ props.variant = "hook"
    /\ event = "frame"
    /\ Completes
    /\ HookAllSettled
    /\ isHovered
    /\ anim.currentWidth = 1500000
    /\ ~anim.isAnimating

-----------------------------------------------------------------------------
(* C19 *)

\* the current value and the velocity of every channel
Motion(state) ==
    << state.currentWidth, state.widthVelocity,
       state.currentHeight, state.heightVelocity,
       state.currentScale, state.scaleVelocity,
       state.currentPosition, state.positionVelocity,
       state.currentRotation, state.rotationVelocity,
       state.currentOpacity, state.opacityVelocity,
       state.currentBorderRadius, state.borderRadiusVelocity >>

\* C19: a pointer event or prop change, with the effect that sets the base
\* values and applies the resolved record again, leaves the current value and
\* the velocity of every channel as they were; only a frame moves them.
C19_TargetsOnly ==
    [][ ~IsTick => Motion(anim') = Motion(anim) ]_vars

\* disabled has become true while the panel was pressed and widening: the
\* width target is back at the base width, the width is still under way
C19_Witness ==
    /\ event = "props"
    /\ props.disabled /\ isPressed
    /\ anim.targetWidth = props.width
    /\ anim.currentWidth > props.width
    /\ anim.widthVelocity # 0
    /\ anim.targetOpacity = 500000
    /\ anim.currentOpacity = One

-----------------------------------------------------------------------------
(* C20 *)

\* the value and the velocity a step integrates, before the settle test
Integrated(current, target, velocity) ==
    LET newVelocity == MulFrac(velocity + MulFrac((target - current) * call.strength,
                                                  call.delta), call.damping)
    IN  <<current + MulFrac(newVelocity * TimeScale, call.delta), newVelocity>>

\* |target - current| < threshold and |new velocity| < threshold, both strict
StrictlyWithin(current, target, velocity) ==
    /\ Abs(target - current) < call.threshold
    /\ Abs(Integrated(current, target, velocity)[2]) < call.threshold

\* what a step returns for one channel when it settles exactly on the strict
\* test: [value, velocity, still animating]
StrictStep(current, target, velocity) ==
    IF StrictlyWithin(current, target, velocity)
    THEN <<target, 0, FALSE>>
    ELSE Integrated(current, target, velocity) \o <<TRUE>>

\* C20: a spring step returns (target, 0) and reports the channel settled
\* exactly when |target - current| < threshold and |new velocity| < threshold,
\* both strict; otherwise, a displacement or a new velocity equal to the
\* threshold included, it returns the integrated value and velocity and
\* reports the channel as still animating.
C20_SettlesExactlyBelowThreshold ==
    Returned =>
        /\ call.fn = "springStep" /\ "start" \notin DOMAIN call =>
             ret[1] = StrictStep(call.current, call.target, call.velocity)
        /\ call.fn = "appSpringStep" =>
             ret[1] = SubSeq(StrictStep(call.current, call.target, call.velocity), 1, 2)
        /\ call.fn = "springStepBorderRadius" =>
             LET corner(i) == StrictStep(call.current[i], call.target[i],
                                         call.velocity[i])
             IN  /\ \A i \in 1..4 : /\ ret[1][1][i] = corner(i)[1]
                                    /\ ret[1][2][i] = corner(i)[2]
                 /\ ret[1][3] = \E i \in 1..4 : corner(i)[3]

\* a displacement equal to the threshold with no force and no velocity: the
\* step of the component snaps the channel to its target and reports it settled
C20_Witness ==
    /\ Returned
    /\ call.fn = "springStep"
    /\ call.current = 999000 /\ call.target = One /\ call.velocity = 0
    /\ call.threshold = 1000 /\ call.strength = 0
    /\ ret[1] = <<One, 0, FALSE>>

-----------------------------------------------------------------------------
(* C21 *)

\* the targets of every channel
Targets(state) ==
    << state.targetWidth, state.targetHeight, state.targetScale,
       state.targetPosition, state.targetRotation, state.targetOpacity,
       state.targetBorderRadius >>

\* the targets that the flags and the props of this state resolve to
ResolvedNow ==
    LET record == IF props.variant = "animatedRadius"
                  THEN radiusGetCurrentAnimation(props, isPressed, isHovered)
                  ELSE getCurrentAnimation(props, isPressed, isHovered)
        based  == [ anim EXCEPT
                      !.basePosition = props.position,
                      !.baseRotation = props.rotation,
                      !.baseWidth = props.width,
                      !.baseHeight = props.height,
                      !.baseScale = props.scale ]
    IN  IF props.variant = "animatedRadius"
        THEN radiusApplyAnimation(based, record)
        ELSE applyAnimation(based, record)

\* one channel stepped from its current value toward the given target with
\* the spring of the props
StepToward(current, target, velocity) ==
    springStep(current, target, velocity, frame.delta, props.springStrength,
               props.damping, props.animationThreshold)

-----------------------------------------------------------------------------
(* C23 *)

\* C23: in the component, after a pointer-down on the panel and a later
\* pointer-up on the panel isPressed is false, whatever changes of disabled
\* happen between the two or at the pointer-up.
C23_ReleaseClearsPress ==
    props.impl = "component" /\ event = "pointerup" => ~isPressed

\* the release arrived on a disabled panel that was pressed before it was
\* disabled: isPressed is still true with the button up
C23_Witness ==
    /\ props.impl = "component"
    /\ event = "pointerup"
    /\ props.disabled /\ isPressed /\ ~pointer.down
    /\ calls = <<>>

\* what the stuck flag leads to: the panel is enabled again, no button is
\* held, and the tap layer is what getCurrentAnimation resolves
C23_StuckPressResolvesTap ==
    /\ props.impl = "component"
    /\ ~props.disabled /\ ~pointer.down /\ pointer.inside /\ isPressed
    /\ event = "props"

-----------------------------------------------------------------------------
(* C24 *)

\* a pointer-leave event is the step being taken
IsPointerLeave == event' = "pointerleave" /\ pointer.inside /\ ~pointer'.inside

\* C24: in useHandlers isHovered is false after every pointer-leave, also
\* when disabled became true since the pointer-enter, and the pointer-leave
\* that follows an onHoverStart call calls onHoverEnd (isHovered is true
\* exactly from the handler that calls onHoverStart to the one that calls
\* onHoverEnd).
C24_LeaveClearsHover ==
    [][ props.impl = "useHandlers" /\ IsPointerLeave =>
          /\ ~isHovered'
          /\ isHovered => calls' = Invoke(<<Callback("onHoverEnd")>>) ]_vars

\* the pointer has left a panel that was disabled while hovered: isHovered is
\* still true and onHoverEnd, though supplied, was not called
C24_Witness ==
    /\ props.impl = "useHandlers"
    /\ event = "pointerleave"
    /\ ~pointer.inside /\ isHovered /\ props.disabled
    /\ "onHoverEnd" \in props.callbacks
    /\ calls = <<>>

-----------------------------------------------------------------------------
(* C25 *)

\* a pointer-up event on the panel is the step being taken
IsPointerUp == event' = "pointerup" /\ pointer.down /\ ~pointer'.down

\* C25: in the component a pointer-up calls onTapEnd, onClick and onToggle
\* only if the panel is pressed at that moment; a pointer-up that no
\* pointer-down on the panel preceded calls none of them.
C25_ReleaseNeedsPress ==
    [][ props.impl = "component" /\ IsPointerUp /\ ~isPressed =>
          calls' = <<>> ]_vars

-----------------------------------------------------------------------------
(* C26 *)

\* the step being taken calls the callback
Calling(name) ==
    /\ event' \in {"pointerenter", "pointerleave", "pointerdown", "pointerup"}
    /\ pointer' # pointer
    /\ \E i \in 1..Len(calls') : calls'[i].cb = name

\* C26: in the component the hover callbacks alternate: onHoverEnd is called
\* only when onHoverStart has been called since the previous onHoverEnd, and
\* onHoverStart is never called twice with no onHoverEnd in between.  The
\* component sets isHovered with the one call and clears it with the other,
\* so isHovered tells whether an onHoverStart call is outstanding; both
\* callbacks are supplied.
C26_HoverCallbacksAlternate ==
    [][ /\ props.impl = "component"
        /\ {"onHoverStart", "onHoverEnd"} \subseteq props.callbacks
        => /\ Calling("onHoverEnd") => isHovered
           /\ Calling("onHoverStart") => ~isHovered ]_vars

\* the half of C26 that the component keeps: no second onHoverStart while one
\* is outstanding
C26_NoSecondHoverStart ==
    [][ /\ props.impl = "component"
        /\ {"onHoverStart", "onHoverEnd"} \subseteq props.callbacks
        => (Calling("onHoverStart") => ~isHovered) ]_vars

-----------------------------------------------------------------------------
(* C27 *)

\* C27: in the component, once the width and the height have settled at
\* their targets, the boundary built last was built from exactly the settled
\* width and height.
C27_ShapeBuiltFromSettledSize ==
    props # <<>> /\ props.variant = "component" /\ WidthAtRest /\ HeightAtRest
        => shape.width = anim.currentWidth /\ shape.height = anim.currentHeight

\* the width has settled at the tap target 1.5 and the boundary on screen is
\* the one of the last unsettled frame, narrower than 1.5
C27_Witness ==
    /\ event = "frame"
    /\ props.variant = "component"
    /\ WidthAtRest /\ HeightAtRest
    /\ anim.currentWidth = 1500000
    /\ shape.width < 1500000
    /\ shape.width > 1400000
    /\ ~frame.geometryNeedsUpdate

-----------------------------------------------------------------------------
(* Transition configs.  A config is a record of the same kind as an          *)
(* animation record: a function from its own keys to <<>> (undefined) or     *)
(* <<value>>.                                                                *)

Max(a, b) == IF a > b THEN a ELSE b

\* merged?.k ?? fallback
OrNullish(merged, k, fallback) ==
    IF IsDefined(merged, k) THEN merged[k][1] ELSE fallback

\* transitions.reduce((acc, t) => !t ? acc : { ...acc, ...t }, {})
RECURSIVE SpreadAll(_, _)
SpreadAll(acc, transitions) ==
    IF transitions = <<>> THEN acc
    ELSE SpreadAll(IF Head(transitions) = <<>> THEN acc
                   ELSE ObjectAssign(acc, Head(transitions)[1]),
                   Tail(transitions))

\* mergeTransitions(...transitions): the validated fields, then ...merged
mergeTransitions(transitions) ==
    LET merged == SpreadAll(EmptyRecord, transitions)
        validated ==
            [ duration  |-> Num(Max(0, OrNullish(merged, "duration", 200000))),
              delay     |-> Num(Max(0, OrNullish(merged, "delay", 0))),
              ease      |-> Num(OrNullish(merged, "ease", "ease-out")),
              stiffness |-> Num(Max(0, OrNullish(merged, "stiffness", 300 * One))),
              damping   |-> Num(Max(0, OrNullish(merged, "damping", 20 * One))),
              mass      |-> Num(Max(10000, OrNullish(merged, "mass", One))) ]
    IN  ObjectAssign(validated, merged)

DEFAULT_TRANSITION ==
    [ duration |-> Num(200000), ease |-> Num("ease-out"),
      stiffness |-> Num(300 * One), damping |-> Num(20 * One), mass |-> Num(One) ]

\* the configs mergeTransitions is called on: in and out of bounds, with a
\* key that is present and undefined, and none
SampleTransitions ==
    { [duration |-> Num(500000), ease |-> Num("linear")],
      [duration |-> Num(0 - 300000)],
      [delay |-> Num(0 - 100000), stiffness |-> Num(0 - 50 * One)],
      [damping |-> Num(0 - 5 * One), mass |-> Num(0)],
      [mass |-> Num(2 * One), stiffness |-> Num(100 * One), damping |-> Num(10 * One)],
      [duration |-> Undefined, delay |-> Num(100000)],
      DEFAULT_TRANSITION }

OptionalTransitions == {<<>>} \cup {<<t>> : t \in SampleTransitions}

MaxTransitions == 3

InitTransitions ==
    /\ \E n \in 0..MaxTransitions :
         \E transitions \in [1..n -> OptionalTransitions] :
            call = [fn |-> "mergeTransitions", transitions |-> transitions]
    /\ ret = <<>>
    /\ steps = 0
    /\ NoPanel

CallMergeTransitions ==
    /\ call.fn = "mergeTransitions"
    /\ ret = <<>>
    /\ ret' = <<mergeTransitions(call.transitions)>>
    /\ UNCHANGED <<call, steps>>
    /\ UNCHANGED panelVars

NextTransitions == CallMergeTransitions

SpecTransitions == InitTransitions /\ [][NextTransitions]_vars

-----------------------------------------------------------------------------
(* C29 *)

\* the lower bound mergeTransitions puts on a numeric field
TransitionBound(k) == IF k = "mass" THEN 10000 ELSE 0

NumericTransitionKeys == {"duration", "delay", "stiffness", "damping", "mass"}

\* the value of key k in the last config of the list that defines it, <<>>
\* when none does
RECURSIVE LastDefined(_, _)
LastDefined(transitions, k) ==
    IF transitions = <<>> THEN <<>>
    ELSE LET last == transitions[Len(transitions)]
         IN  IF last # <<>> /\ IsDefined(last[1], k) THEN last[1][k]
             ELSE LastDefined(SubSeq(transitions, 1, Len(transitions) - 1), k)

\* C29: the config mergeTransitions returns has duration, delay, stiffness and
\* damping >= 0 and mass >= 0.01, for every list of configs, negative numbers
\* included, and each of these fields equals the last defined input value
\* whenever that value is within its bound.
C29_ResultWithinBounds ==
    Returned /\ call.fn = "mergeTransitions" =>
        \A k \in NumericTransitionKeys :
            /\ IsDefined(ret[1], k)
            /\ ret[1][k][1] >= TransitionBound(k)
            /\ LET given == LastDefined(call.transitions, k)
               IN  given # <<>> /\ given[1] >= TransitionBound(k)
                      => ret[1][k] = given

\* the second half of C29 alone: a value within its bound comes through
C29_ValueWithinBoundKept ==
    Returned /\ call.fn = "mergeTransitions" =>
        \A k \in NumericTransitionKeys :
            LET given == LastDefined(call.transitions, k)
            IN  given # <<>> /\ given[1] >= TransitionBound(k)
                  /\ IsDefined(SpreadAll(EmptyRecord, call.transitions), k)
                   => ret[1][k] = given

\* mergeTransitions({duration: -0.3}) has returned a config whose duration is
\* -0.3
C29_Witness ==
    /\ Returned
    /\ call.fn = "mergeTransitions"
    /\ call.transitions = << <<[duration |-> Num(0 - 300000)]>> >>
    /\ ret[1].duration = Num(0 - 300000)
    /\ ret[1].mass = Num(One)

-----------------------------------------------------------------------------
(* C22 *)

\* the scalar springStep of the component on corner i of the call
ScalarStepOfCorner(i) ==
    springStep(call.current[i], call.target[i], call.velocity[i], call.delta,
               call.strength, call.damping, call.threshold)

\* C22: for equal current, target, velocity, delta, strength, damping and
\* threshold, springStepBorderRadius yields for each corner exactly the value,
\* the velocity and the animating outcome that the scalar springStep of the
\* component yields, and its flag is true exactly when a corner is animating.
C22_CornersStepLikeScalars ==
    Returned /\ call.fn = "springStepBorderRadius" =>
        /\ \A i \in 1..4 : /\ ret[1][1][i] = ScalarStepOfCorner(i)[1]
                           /\ ret[1][2][i] = ScalarStepOfCorner(i)[2]
        /\ ret[1][3] = \E i \in 1..4 : ScalarStepOfCorner(i)[3]

\* four corners were stepped toward other targets, one of them already in
\* motion: every corner has moved and the flag is raised
C22_Witness ==
    /\ Returned
    /\ call.fn = "springStepBorderRadius"
    /\ call.current = <<0, 100000, 250000, 500000>>
    /\ call.target = <<500000, 500000, 0, 0>>
    /\ call.velocity = <<0, 300, 0 - 200000, 0>>
    /\ call.strength = 15 /\ call.threshold = 1000
    /\ ret[1][3]
    /\ \A i \in 1..4 : ret[1][1][i] # call.current[i]

-----------------------------------------------------------------------------
(* The useAnimation hook: progress-driven easing, or spring physics when the *)
(* active transition has ease "spring"                                       *)

\* easingFunctions[ease](t); "spring" never reaches the table from the hook
easingFunctions(ease, t) ==
    CASE ease = "linear"      -> t
      [] ease = "ease"        -> MulFix(MulFix(t, t), 3 * One - 2 * t)
      [] ease = "ease-in"     -> MulFix(t, t)
      [] ease = "ease-out"    -> MulFix(t, 2 * One - t)
      [] ease = "ease-in-out" ->
            IF t < 500000 THEN 2 * MulFix(t, t)
            ELSE MulFix(4 * One - 2 * t, t) - One
      [] ease = "bounce" ->
            \* 7.5625 * (t - a / 2.75) * (t - a / 2.75) is the square of
            \* 2.75 * t - a, which is exact in millionths
            LET scaled == MulFrac(t, <<11, 4>>)
                square(a) == MulFix(scaled - a, scaled - a)
            IN  IF 11 * t < 4 * One THEN square(0)
                ELSE IF 11 * t < 8 * One THEN square(1500000) + 750000
                ELSE IF 11 * t < 10 * One THEN square(2250000) + 937500
                ELSE square(2625000) + 984375

\* clamp(value, min, max)
clamp(value, min, max) == Min(Max(value, min), max)

ChannelKeys ==
    {"x", "y", "z", "scale", "scaleX", "scaleY", "scaleZ",
     "rotationX", "rotationY", "rotationZ", "opacity"}

\* areAnimationValuesEqual(a, b, threshold) on two records with the same keys
areAnimationValuesEqual(a, b, threshold) ==
    \A k \in DOMAIN a : Abs(a[k] - b[k]) < threshold

\* animation.k !== undefined ? animation.k : fallback
IfDefined(animation, k, fallback) ==
    IF IsDefined(animation, k) THEN animation[k][1] ELSE fallback

\* animation.k || fallback
OrFalsy(record, k, fallback) ==
    IF IsDefined(record, k) /\ record[k][1] # 0 THEN record[k][1] ELSE fallback

\* animationState as useRef creates it
UseAnimationInitialState(position, globalTransition) ==
    LET rest == [k \in ChannelKeys |->
                    CASE k = "x" -> position[1]
                      [] k = "y" -> position[2]
                      [] k = "z" -> position[3]
                      [] k \in {"rotationX", "rotationY", "rotationZ"} -> 0
                      [] OTHER -> One]
    IN  [ current |-> rest, target |-> rest,
          velocity |-> [k \in ChannelKeys |-> 0],
          activeTransition |->
              mergeTransitions(<< <<DEFAULT_TRANSITION>>, globalTransition >>),
          animationProgress |-> One,
          animationStarted |-> FALSE ]

\* the targets applyAnimation of useAnimation sets
UseAnimationTargets(animation, basePos) ==
    [k \in ChannelKeys |->
        CASE k = "x" -> IfDefined(animation, "x", basePos[1])
          [] k = "y" -> IfDefined(animation, "y", basePos[2])
          [] k = "z" -> IfDefined(animation, "z", basePos[3])
          [] k = "scale" -> IfDefined(animation, "scale", One)
          [] k \in {"scaleX", "scaleY", "scaleZ"} ->
                IfDefined(animation, k, OrFalsy(animation, "scale", One))
          [] k \in {"rotationX", "rotationY", "rotationZ"} ->
                OrFalsy(animation, k, 0)
          [] OTHER -> IfDefined(animation, "opacity", One)]

\* applyAnimation(animation, transition) of useAnimation: the new state and
\* whether the target has changed
useAnimationApply(state, animation, transition, position, globalTransition) ==
    LET target == UseAnimationTargets(animation, position)
        targetChanged == ~areAnimationValuesEqual(target, state.current, 1000)
        given == IF IsDefined(animation, "transition")
                 THEN animation.transition ELSE <<>>
    IN  [ state EXCEPT
            !.target = target,
            !.activeTransition =
                mergeTransitions(<<globalTransition, given, transition>>),
            !.animationProgress = IF targetChanged THEN 0 ELSE @,
            !.animationStarted = IF targetChanged THEN TRUE ELSE @ ]

\* Math.min(delta / Math.max(transition.duration || 0.2, 0.016), 0.1)
ProgressDelta(transition, delta) ==
    LET duration == Max(OrFalsy(transition, "duration", 200000), 16000)
    IN  Min(RoundDiv(delta[1] * 1000 * 1000 * 1000, delta[2] * (duration \div 1000)),
            100000)

\* one channel of the spring branch: [current, velocity]
UseAnimationSpring(currentVal, targetVal, velocity, transition, delta) ==
    LET stiffness == OrFalsy(transition, "stiffness", 300 * One)
        damping   == clamp(OrFalsy(transition, "damping", 20 * One), 0, 100 * One)
        mass      == Max(OrFalsy(transition, "mass", One), 10000)
        \* (targetVal - currentVal) * stiffness / mass
        perMass   == MulFix(targetVal - currentVal,
                            RoundDiv(stiffness, mass \div 10000) * 100)
        \* 1 - damping * delta * 0.01
        factor    == One - MulFrac(damping, <<delta[1], delta[2] * 100>>)
        newVelocity == velocity + MulFix(MulFrac(perMass, delta), factor)
    IN  <<currentVal + MulFrac(newVelocity, delta), newVelocity>>

\* transition.ease || "ease-out"
ActiveEase(transition) == IfDefined(transition, "ease", "ease-out")

\* the body of the useFrame callback of useAnimation below its early return
useAnimationStep(state, delta) ==
    LET transition == state.activeTransition
        progress == Min(state.animationProgress + ProgressDelta(transition, delta), One)
        ease == ActiveEase(transition)
        spring(k) == UseAnimationSpring(state.current[k], state.target[k],
                                        state.velocity[k], transition, delta)
        easedProgress == easingFunctions(ease, progress)
    IN  IF ease = "spring"
        THEN [ state EXCEPT
                 !.animationProgress = progress,
                 !.current = [k \in ChannelKeys |-> spring(k)[1]],
                 !.velocity = [k \in ChannelKeys |-> spring(k)[2]] ]
        ELSE [ state EXCEPT
                 !.animationProgress = progress,
                 !.current = [k \in ChannelKeys |->
                                 state.current[k]
                                   + MulFix(state.target[k] - state.current[k],
                                            easedProgress)] ]

-----------------------------------------------------------------------------
(* useAnimation driven by its owner's applyAnimation calls and by frames *)

\* the useFrame callback of useAnimation
UseAnimationTick ==
    /\ props.variant = "useAnimation"
    /\ IF anim.animationProgress >= One
       THEN /\ anim' = [anim EXCEPT !.animationStarted = FALSE]
            /\ calls' = IF anim.animationStarted
                        THEN Invoke(<<Callback("onAnimationComplete")>>)
                        ELSE <<>>
       ELSE /\ anim' = useAnimationStep(anim, frame.delta)
            /\ calls' = Invoke(<<CallbackWith("onAnimationUpdate",
                                              anim'.animationProgress)>>)
    /\ event' = "frame"
    /\ UNCHANGED <<props, isHovered, isPressed, pointer, budget>>
    /\ UNCHANGED <<geometryUpdateFlag, shape, frame>>
    /\ UNCHANGED pureVars

\* the records the owner applies
UseAnimationRecords ==
    { EmptyRecord,
      [opacity |-> Num(500000)],
      [opacity |-> Num(999500)],
      [x |-> Num(200000), scale |-> Num(1100000)],
      [scale |-> Num(1200000),
       transition |-> Num([ease |-> Num("spring")])],
      [rotationZ |-> Num(300000),
       transition |-> Num([ease |-> Num("bounce"), duration |-> Num(100000)])] }

\* the owner calls applyAnimation(animation, transition)
UseAnimationApply ==
    /\ props.variant = "useAnimation"
    /\ budget > 0
    /\ budget' = budget - 1
    /\ \E animation \in UseAnimationRecords,
          transition \in {<<>>, <<[ease |-> Num("linear")]>>} :
         LET next == useAnimationApply(anim, animation, transition,
                                       props.position, props.globalTransition)
         IN  /\ anim' = next
             /\ calls' = IF next.animationProgress = 0
                            /\ ~areAnimationValuesEqual(next.target, anim.current, 1000)
                         THEN Invoke(<<Callback("onAnimationStart")>>)
                         ELSE <<>>
    /\ event' = "apply"
    /\ UNCHANGED <<props, isHovered, isPressed, pointer>>
    /\ UNCHANGED <<geometryUpdateFlag, shape, frame>>
    /\ UNCHANGED pureVars

NextUseAnimation == UseAnimationTick \/ UseAnimationApply

\* the most applyAnimation calls in one run of useAnimation
MaxApplyCalls == 2

GlobalTransitions ==
    { <<>>,
      <<[ease |-> Num("ease"), duration |-> Num(50000)]>>,
      <<[ease |-> Num("ease-in")]>>,
      <<[ease |-> Num("ease-in-out"), duration |-> Num(500000)]>>,
      <<[ease |-> Num("spring"), stiffness |-> Num(100 * One), mass |-> Num(2 * One)]>> }

InitUseAnimation ==
    /\ NoCall
    /\ \E globalTransition \in GlobalTransitions :
          props = [ variant |-> "useAnimation", position |-> <<0, 100000, 0>>,
                    globalTransition |-> globalTransition,
                    callbacks |-> {"onAnimationStart", "onAnimationComplete",
                                   "onAnimationUpdate"} ]
    /\ isHovered = FALSE
    /\ isPressed = FALSE
    /\ pointer = <<>>
    /\ event = "none"
    /\ calls = <<>>
    /\ anim = UseAnimationInitialState(props.position, props.globalTransition)
    /\ geometryUpdateFlag = 0
    /\ shape = <<>>
    /\ \E delta \in FrameDeltas : frame = [delta |-> delta]
    /\ budget = MaxApplyCalls

SpecUseAnimation == InitUseAnimation /\ [][NextUseAnimation]_vars

-----------------------------------------------------------------------------
(* C28 *)

\* every channel is at its target
UseAnimationAtTarget == \A k \in ChannelKeys : anim.current[k] = anim.target[k]

\* C28: in useAnimation, animationProgress never decreases between two
\* applyAnimation calls and never exceeds 1, and whenever it has reached 1
\* every channel's current value equals its target value, for every easing,
\* ease "spring" included.
C28_CompleteMeansAtTarget ==
    /\ [](anim.animationProgress <= One)
    /\ [](anim.animationProgress = One => UseAnimationAtTarget)
    /\ [][ IsTick => anim'.animationProgress >= anim.animationProgress ]_vars

\* the part of C28 about the progress alone
C28_ProgressMonotoneWithinOne ==
    /\ [](anim.animationProgress <= One)
    /\ [][ IsTick => anim'.animationProgress >= anim.animationProgress ]_vars

\* the eased transitions alone: a frame that brings the progress to 1, or
\* reports completion, leaves every channel at its target
C28_EasedCompleteMeansAtTarget ==
    /\ anim.animationProgress = One
    /\ ActiveEase(anim.activeTransition) # "spring"
    /\ event = "frame"
    /\ calls # <<>>
    => UseAnimationAtTarget

\* a spring transition has run its duration: the hook reports the animation
\* complete and stops updating with the scale between its start and its target
C28_Witness ==
    /\ event = "frame"
    /\ anim.animationProgress = One
    /\ ~anim.animationStarted
    /\ anim.activeTransition.ease = Num("spring")
    /\ anim.target["scale"] = 1200000
    /\ anim.current["scale"] # 1200000
    /\ calls = <<Callback("onAnimationComplete")>>

=============================================================================
